---- MODULE Spec2Model ----
(***************************************************************************)
(* Model of the conversation orchestration engine of chimera:              *)
(*   - TurnManager            (app/services/turn_manager.py)               *)
(*   - ConversationOrchestrator (app/services/conversation_orchestrator.py)*)
(*   - WebSocketManager       (app/services/websocket_manager.py)          *)
(*   - TopicAnalyzer, ResponseCache, ProviderRegistry                      *)
(* The specifications share the variables:                                 *)
(*   Spec    : the orchestrator (start/stop and the turn-loop tasks)       *)
(*   SpecTM  : sequences of TurnManager calls on one manager instance      *)
(*   SpecSel : one _select_provider_for_persona call, check by check       *)
(*   SpecHub : the connection registry and a broadcast, send by send       *)
(*   SpecSweep    : the registry under the heartbeat sweep                 *)
(*   SpecReload   : selection calls around reload_providers                *)
(*   SpecCache    : ResponseCache over redis_client                        *)
(*   SpecLoop     : one turn-loop task under fair scheduling               *)
(*   SpecEndpoint : websocket_endpoint (app/api/websockets.py), by frame   *)
(*   SpecTopic    : TopicAnalyzer.suggest_topic_shift, call by call        *)
(*   SpecInit     : provider initialization and reload on any settings     *)
(*   SpecEvict    : the sweep under fair scheduling, time without end      *)
(*   SpecHang     : SpecLoop with provider calls that never return         *)
(*   SpecDur      : TurnManager calls whose store writes are in flight     *)
(*   SpecIso      : TurnManager and WebSocketManager on two conversations  *)
(*   SpecRoute    : the turn loop over its full range with topic routing   *)
(*   SpecPin      : generations for personas with and without a model pin  *)
(***************************************************************************)
EXTENDS Integers, Sequences, FiniteSets, TLC

VARIABLES
    active_conversations,  \* TurnManager.active_conversations: dict id -> state
    redis,                 \* the store behind redis_client: dict id -> value
    ret,                   \* history: the last TurnManager call, its argument and result
    stopped,               \* history: ids whose stop_conversation completed, no start since
    pending,               \* the redis_client.set calls of the TurnManager not yet applied
    nupdates,              \* history: id -> number of update_last_speaker calls since its start
    loops,                 \* the _conversation_loop tasks created by the orchestrator
    after_stop,            \* history, per task: a stop completed while it ran, messages since
    oret,                  \* history: the last orchestrator call and its result
    providers,             \* ConversationOrchestrator.providers: names in dict order
    provider_persona_assignment,  \* persona -> preference list of provider names
    health,                \* what health_check() of each provider answers now
    model,                 \* the model attribute of each provider instance
    sel,                   \* the running _select_provider_for_persona call
    selg,                  \* history of that call: health stable, providers healthy throughout
    rl,                    \* history: reload_providers calls so far, registries that call read
    active_connections,    \* WebSocketManager.active_connections: room -> socket -> last seen
    bc,                    \* the running broadcast_to_conversation call
    sw,                    \* the running remove_stale_connections call
    now,                   \* time.time()
    ep,                    \* the frame websocket_endpoint is handling
    heard,                 \* history: when the last inbound frame of each socket arrived
    hb,                    \* WebSocketManager._heartbeat_task and the tasks not done
    cache,                 \* redis_client as ResponseCache uses it, and the Redis server
    cret,                  \* history: the last ResponseCache call and what was stored so far
    ta,                    \* the arguments and the result of a TopicAnalyzer call
    keys                   \* history: the API keys of the settings _initialize_providers read last

vars == <<active_conversations, redis, ret, stopped, nupdates, pending, loops, after_stop, oret,
          providers, provider_persona_assignment, health, model, sel, selg, rl,
          active_connections, bc, sw, now, ep, hb, heard, cache, cret, ta, keys>>

tmVars   == <<active_conversations, redis, ret, stopped, nupdates, pending>>
orchVars == <<loops, after_stop, oret>>
selVars  == <<providers, provider_persona_assignment, health, model, sel, selg, rl>>
hubVars  == <<active_connections, bc, sw, now, ep, hb, heard>>
cacheVars == <<cache, cret>>
fnVars   == <<ta, keys>>

----------------------------------------------------------------------------
(* Bounds and input sets *)

MaxTurnCount == 2          \* cap on current_turn in SpecTM
MaxSockets == 3            \* WebSocket objects the server accepts in SpecHub
MaxTime == 2               \* clock ticks in SpecHub
MaxInFlight == 2           \* redis_client.set calls of the TurnManager in flight in SpecDur
MaxReloads == 1            \* reload_providers calls in SpecReload
MaxTurn == 17              \* largest turn_count given to suggest_topic_shift

ConvIds == {"c1", "c2"}

None == "None"

Personas == {"philosopher", "comedian", "scientist", "poet"}

\* participant lists handed to start_conversation
ParticipantLists ==
    { <<>>,
      <<"philosopher">>,
      <<"philosopher", "comedian">>,
      <<"comedian", "comedian">>,
      <<"poet", "scientist">>,
      <<"philosopher", "comedian", "scientist">> }

----------------------------------------------------------------------------
(* Python dict helpers *)

EmptyDict == [k \in {} |-> None]

Put(d, k, v) == [x \in (DOMAIN d) \cup {k} |-> IF x = k THEN v ELSE d[x]]

Del(d, k) == [x \in (DOMAIN d) \ {k} |-> d[x]]

Range(s) == {s[i] : i \in DOMAIN s}

\* no call made yet
NoCall == [op |-> "none", cid |-> None, arg |-> None, val |-> None]

----------------------------------------------------------------------------
(* TurnManager *)

NewStateBad(participants) ==
    [participants |-> participants, current_turn |-> 1,
     is_active |-> TRUE, last_speaker |-> None]

\* the dict start_conversation stores
NewState(participants) ==
    [participants |-> participants, current_turn |-> 0,
     is_active |-> TRUE, last_speaker |-> None]

\* json.dumps of a state dict; json.loads gives the dict back for these
\* value types (list of str, int, bool, null)
Dumps(st) == [valid |-> TRUE, state |-> st]

\* a stored string json.loads raises on
Corrupt == [valid |-> FALSE]

\* _get_conversation_state: the local cache after the call (a state found in
\* the store is cached) ...
CacheAfterGet(c) ==
    IF c \in DOMAIN active_conversations THEN active_conversations
    ELSE IF c \in DOMAIN redis /\ redis[c].valid
         THEN Put(active_conversations, c, redis[c].state)
         ELSE active_conversations

\* ... and whether it returns a state
HasState(c) == c \in DOMAIN CacheAfterGet(c)

GetState(c) == CacheAfterGet(c)[c]

\* weights of get_next_speaker in tenths; 1.0 for an unlisted persona
Weight(p) ==
    IF p = "philosopher" THEN 3
    ELSE IF p = "comedian" THEN 4
    ELSE IF p = "scientist" THEN 3
    ELSE 10

RECURSIVE CumWeight(_, _)
CumWeight(speakers, n) ==
    IF n = 0 THEN 0 ELSE CumWeight(speakers, n - 1) + Weight(speakers[n])

TotalWeight(speakers) == CumWeight(speakers, Len(speakers))

AvailableSpeakersBad(st) == st.participants

\* available_speakers of get_next_speaker
AvailableSpeakers(st) ==
    LET av == SelectSeq(st.participants, LAMBDA p : p # st.last_speaker)
    IN  IF av = <<>> THEN st.participants ELSE av

\* the values r = random.random() * total_weight takes, in tenths; the
\* value TotalWeight + 1 stands for an r that rounding left above the
\* accumulated current_weight, the case the fallback is written for
RValues(speakers) == 0 .. (TotalWeight(speakers) + 1)

\* the speakers the weighted loop, or the random.choice fallback, can return
\* for a given r; empty set when random.choice raises IndexError
WeightedPick(speakers, r) ==
    LET hits == {i \in DOMAIN speakers : r <= CumWeight(speakers, i)}
    IN  IF hits # {}
        THEN {speakers[CHOOSE i \in hits : \A j \in hits : i <= j]}
        ELSE Range(speakers)

\* the values get_next_speaker(c) can return
NextSpeakers(c) ==
    IF ~HasState(c) \/ ~GetState(c).is_active THEN {None}
    ELSE LET av == AvailableSpeakers(GetState(c))
             picks == UNION {WeightedPick(av, r) : r \in RValues(av)}
         IN  IF picks = {} THEN {"IndexError"} ELSE picks

\* the TurnManager part of start_conversation
TMStart(c, participants) ==
    /\ active_conversations' = Put(active_conversations, c, NewState(participants))
    /\ redis' = Put(redis, c, Dumps(NewState(participants)))
    /\ stopped' = stopped \ {c}
    /\ nupdates' = Put(nupdates, c, 0)
    /\ UNCHANGED pending

\* the TurnManager part of get_next_speaker returning v
TMGetNext(c, v) ==
    /\ v \in NextSpeakers(c)
    /\ active_conversations' = CacheAfterGet(c)
    /\ UNCHANGED <<redis, stopped, nupdates, pending>>

UpdatedStateBad(st, speaker) ==
    [st EXCEPT !.last_speaker = speaker]

UpdatedState(st, speaker) ==
    [st EXCEPT !.last_speaker = speaker, !.current_turn = @ + 1]

\* the TurnManager part of update_last_speaker
TMUpdate(c, speaker) ==
    /\ IF HasState(c)
       THEN LET st == UpdatedState(GetState(c), speaker)
            IN  /\ active_conversations' = Put(CacheAfterGet(c), c, st)
                /\ redis' = Put(redis, c, Dumps(st))
       ELSE UNCHANGED <<active_conversations, redis>>
    /\ nupdates' = IF c \in DOMAIN nupdates
                   THEN [nupdates EXCEPT ![c] = @ + 1] ELSE nupdates
    /\ UNCHANGED <<stopped, pending>>

StoppedStateBad(st) == st

StoppedState(st) == [st EXCEPT !.is_active = FALSE]

\* the TurnManager part of stop_conversation
TMStop(c) ==
    /\ IF HasState(c)
       THEN LET st == StoppedState(GetState(c))
            IN  /\ active_conversations' = Put(CacheAfterGet(c), c, st)
                /\ redis' = Put(redis, c, Dumps(st))
       ELSE UNCHANGED <<active_conversations, redis>>
    /\ stopped' = stopped \cup {c}
    /\ UNCHANGED <<nupdates, pending>>


----------------------------------------------------------------------------
(* Provider selection: ConversationOrchestrator._select_provider_for_persona *)

\* provider names, in the order registry.py registers them (a subset)
RegistryOrder == <<"openai", "claude", "ollama", "demo">>

ProviderNames == Range(RegistryOrder)

\* a provider map holding the names of S, in registration order
ProviderMap(S) == SelectSeq(RegistryOrder, LAMBDA n : n \in S)

\* base_mapping of _initialize_providers
base_mapping ==
    [philosopher |-> <<"openai", "claude", "deepseek", "openrouter", "demo">>,
     comedian    |-> <<"claude", "openai", "deepseek", "openrouter", "demo">>,
     scientist   |-> <<"openai", "deepseek", "claude", "openrouter", "demo">>]

\* provider_persona_assignment as _initialize_providers computes it
InitializeAssignment(provs) ==
    [persona \in DOMAIN base_mapping |->
        LET available == Range(provs)
            kept == SelectSeq(base_mapping[persona], LAMBDA n : n \in available)
            filtered == IF "demo" \in available /\ "demo" \notin Range(kept)
                        THEN Append(kept, "demo") ELSE kept
        IN  IF filtered # <<>> THEN filtered ELSE provs]

\* the names _register_default_providers registers, in order
Registrations ==
    <<"openai", "claude", "deepseek", "gemini", "openrouter", "lm_studio",
      "ollama", "demo">>

\* the registrations with requires_api_key=True; their key is the settings
\* attribute of the registration
RequiresApiKey == {"openai", "claude", "deepseek", "gemini", "openrouter"}

create_configured_providersBad(k, failed) ==
    SelectSeq(Registrations, LAMBDA n : n \notin failed)

\* ProviderRegistry.create_configured_providers on settings holding the API
\* keys k: a registration whose key is missing raises MissingAPIKeyError and
\* is skipped, and so is one whose constructor raises (failed)
create_configured_providers(k, failed) ==
    SelectSeq(Registrations,
              LAMBDA n : (n \in RequiresApiKey => n \in k) /\ n \notin failed)

\* the provider map _initialize_providers returns: the configured providers,
\* and demo created on its own when it is not among them
initialize_providers(k, failed) ==
    LET configured == create_configured_providers(k, failed)
    IN  IF "demo" \in Range(configured) THEN configured
        ELSE Append(configured, "demo")

\* the model a provider is constructed with
DefaultModel == "default"

\* provider.model of freshly constructed providers
DefaultModels == [n \in ProviderNames \cup Range(Registrations) |-> DefaultModel]

\* preferred_providers: the persona's list, or all provider names
PrefList(persona, asg, provs) ==
    IF persona \in DOMAIN asg THEN asg[persona] ELSE provs

\* index of the first element of seq at or after from that satisfies ok; 0 if none
FirstFrom(seq, from, ok(_)) ==
    LET c == {i \in from .. Len(seq) : ok(seq[i])}
    IN  IF c = {} THEN 0 ELSE CHOOSE i \in c : \A j \in c : i <= j

SelIdle ==
    [pc |-> "idle", persona |-> None, manual |-> None, prefs |-> <<>>,
     items |-> <<>>, idx |-> 0, target |-> None, result |-> None, checked |-> {}]

\* history of a call: health answers unchanged so far, the providers healthy
\* throughout, the providers checked in order, the result of the call before
SelgIdle == [stable |-> TRUE, always |-> {}, log |-> <<>>, before |-> None]

\* no reload_providers call yet, no registry read by a selection call
RlIdle == [gen |-> 0, seen |-> {}]

SeekDemoBad(s, provs) ==
    [s EXCEPT !.pc = "done", !.target = None, !.result = None]

\* last resort: self.providers.get("demo") and its health check
SeekDemo(s, provs) ==
    IF "demo" \in Range(provs)
    THEN [s EXCEPT !.pc = "demo", !.target = "demo"]
    ELSE [s EXCEPT !.pc = "done", !.target = None, !.result = None]

\* second loop: the next non-demo entry of the items() being iterated
SeekAny(s, from, provs) ==
    LET i == FirstFrom(s.items, from, LAMBDA n : n # "demo")
    IN  IF i # 0
        THEN [s EXCEPT !.pc = "any", !.idx = i, !.target = s.items[i]]
        ELSE SeekDemo(s, provs)

SeekPrefBad(s, from, provs) ==
    LET c == {i \in from .. Len(s.prefs) :
                 s.prefs[i] # "demo" /\ s.prefs[i] \in Range(provs)}
    IN  IF c # {}
        THEN LET i == CHOOSE i \in c : \A j \in c : j <= i
             IN  [s EXCEPT !.pc = "pref", !.idx = i, !.target = s.prefs[i]]
        ELSE SeekAny([s EXCEPT !.items = provs], 1, provs)

\* first loop: the next preferred name that is not demo and is in
\* self.providers; when the list is exhausted the second loop starts on
\* self.providers.items()
SeekPref(s, from, provs) ==
    LET i == FirstFrom(s.prefs, from,
                       LAMBDA n : n # "demo" /\ n \in Range(provs))
    IN  IF i # 0
        THEN [s EXCEPT !.pc = "pref", !.idx = i, !.target = s.prefs[i]]
        ELSE SeekAny([s EXCEPT !.items = provs], 1, provs)

SelBeginBad(persona, manual, asg, provs) ==
    LET s0 == [SelIdle EXCEPT !.pc = "start", !.persona = persona,
                              !.manual = manual]
    IN  SeekPref([s0 EXCEPT !.prefs = PrefList(persona, asg, provs)], 1, provs)

\* the call up to its first health check
SelBegin(persona, manual, asg, provs) ==
    LET s0 == [SelIdle EXCEPT !.pc = "start", !.persona = persona,
                              !.manual = manual]
    IN  IF manual \notin {None, "auto"} /\ manual \in Range(provs)
        THEN [s0 EXCEPT !.pc = "manual", !.target = manual]
        ELSE SeekPref([s0 EXCEPT !.prefs = PrefList(persona, asg, provs)],
                      1, provs)

SelStepBad(s, h, asg, provs) ==
    IF h[s.target]
    THEN [s EXCEPT !.pc = "done", !.result = s.target]
    ELSE [s EXCEPT !.pc = "done", !.target = None, !.result = None,
                   !.checked = @ \cup {s.target}]

\* the health check in flight answers h[target]: return the provider, or
\* go on to the next candidate
SelStep(s, h, asg, provs) ==
    IF h[s.target]
    THEN [s EXCEPT !.pc = "done", !.result = s.target]
    ELSE LET s1 == [s EXCEPT !.checked = @ \cup {s.target}]
         IN  CASE s.pc = "manual" ->
                    SeekPref([s1 EXCEPT !.prefs = PrefList(s.persona, asg, provs)],
                             1, provs)
               [] s.pc = "pref" -> SeekPref(s1, s.idx + 1, provs)
               [] s.pc = "any"  -> SeekAny(s1, s.idx + 1, provs)
               [] OTHER -> [s1 EXCEPT !.pc = "done", !.target = None,
                                      !.result = None]

\* a whole call against health answers that do not change meanwhile
RECURSIVE SelectRun(_, _, _, _)
SelectRun(s, h, asg, provs) ==
    IF s.pc = "done" THEN s ELSE SelectRun(SelStep(s, h, asg, provs), h, asg, provs)


----------------------------------------------------------------------------
(* WebSocketManager *)

Sockets == 1 .. MaxSockets

\* the sockets registered in a room
Members(room) ==
    IF room \in DOMAIN active_connections
    THEN DOMAIN active_connections[room] ELSE {}

DisconnectedBad(conns, ws, room) ==
    IF room \in DOMAIN conns
    THEN [conns EXCEPT ![room] = Del(conns[room], ws)]
    ELSE conns

\* WebSocketManager.disconnect on a registry: pop the socket, delete the
\* room when it is left empty
Disconnected(conns, ws, room) ==
    IF room \in DOMAIN conns
    THEN LET left == Del(conns[room], ws)
         IN  IF DOMAIN left = {} THEN Del(conns, room)
             ELSE [conns EXCEPT ![room] = left]
    ELSE conns

\* disconnect applied to every socket of a set
RECURSIVE DisconnectAll(_, _, _)
DisconnectAll(conns, S, room) ==
    IF S = {} THEN conns
    ELSE LET ws == CHOOSE x \in S : TRUE
         IN  DisconnectAll(Disconnected(conns, ws, room), S \ {ws}, room)

\* mark_heartbeat on a registry
Marked(conns, room, ws, t) ==
    IF room \in DOMAIN conns /\ ws \in DOMAIN conns[room]
    THEN [conns EXCEPT ![room][ws] = t] ELSE conns

BcIdle ==
    [pc |-> "idle", room |-> None, snapshot |-> {}, todo |-> {}, failed |-> {},
     received |-> {}, attempts |-> [w \in Sockets |-> 0], published |-> 0]

\* WebSocketManager.connection_timeout, in clock ticks of 45 seconds
connection_timeout == 1

\* no remove_stale_connections call is running; stale holds the collected
\* (room, socket) pairs not yet handled, cur the pair being handled (framed:
\* its error frame went out, closed: its close returned, count: the client
\* count of its status message), st the status broadcast after its removal
SwIdle ==
    [pc |-> "idle", stale |-> {}, cur |-> <<>>, framed |-> FALSE,
     closed |-> FALSE, count |-> 0, st |-> BcIdle]

\* the sockets a running sweep still holds a reference to
SweepHeld ==
    {x[2] : x \in sw.stale} \cup sw.st.todo
        \cup (IF sw.cur = <<>> THEN {} ELSE {sw.cur[2]})

\* the endpoint is in its receive loop, no frame in hand; code is the code
\* of the frame it sends back (reason: the reason that frame carries), sent
\* whether that send went out, open whether no websocket.close has returned,
\* st the status broadcast it makes and count the client count of that
\* status, next where it goes after the broadcast, trace what it has done
\* with the frame so far
EpIdle ==
    [pc |-> "idle", ws |-> 0, room |-> None, frame |-> None, code |-> None,
     reason |-> None, sent |-> FALSE, open |-> TRUE, st |-> BcIdle,
     count |-> 0, next |-> None, trace |-> <<>>, re |-> FALSE]

\* the sockets the endpoint still holds a reference to
EpHeld ==
    ep.st.todo \cup (IF ep.pc \in {"hello", "send", "dclose", "status", "publish",
                                    "recv", "close"}
                     THEN {ep.ws} ELSE {})

\* a socket the endpoint can still hand to connect: in no room, and not held
\* by the running broadcast, sweep or frame handling
Fresh(ws) ==
    /\ \A r \in DOMAIN active_connections : ws \notin DOMAIN active_connections[r]
    /\ ws \notin bc.todo
    /\ ws \notin SweepHeld
    /\ ws \notin EpHeld

\* no heartbeat task was created yet; task is the state of
\* self._heartbeat_task, live the number of heartbeat tasks not done, again
\* whether a task was created after an earlier one was done
HbIdle == [task |-> "none", live |-> 0, again |-> FALSE]

EnsureHeartbeatTaskBad(h) ==
    [task |-> "running", live |-> h.live + 1, again |-> h.task = "done"]

\* _ensure_heartbeat_task
EnsureHeartbeatTask(h) ==
    IF h.task \in {"none", "done"}
    THEN [task |-> "running", live |-> h.live + 1,
          again |-> h.again \/ h.task = "done"]
    ELSE h

connect(ws, room) ==
    /\ Fresh(ws)
    /\ active_connections' =
          Put(active_connections, room,
              Put(IF room \in DOMAIN active_connections
                  THEN active_connections[room] ELSE EmptyDict, ws, now))
    /\ hb' = EnsureHeartbeatTask(hb)
    /\ heard' = [heard EXCEPT ![ws] = now]
    /\ UNCHANGED <<tmVars, orchVars, cacheVars, fnVars, selVars, ep, bc, sw, now>>

disconnect(ws, room) ==
    /\ ws \in Members(room)
    /\ active_connections' = Disconnected(active_connections, ws, room)
    /\ UNCHANGED <<tmVars, orchVars, cacheVars, fnVars, selVars, heard, ep, hb, bc, sw, now>>

broadcast_to_conversationBad(room) ==
    /\ bc.pc \in {"idle", "done"}
    /\ bc' = IF room \notin DOMAIN active_connections
             THEN [BcIdle EXCEPT !.pc = "done", !.room = room]
             ELSE [BcIdle EXCEPT !.pc = "send", !.room = room,
                                 !.snapshot = UNION {Members(r) : r \in ConvIds},
                                 !.todo = UNION {Members(r) : r \in ConvIds}]
    /\ UNCHANGED <<tmVars, orchVars, cacheVars, fnVars, selVars, heard, ep, hb, active_connections, sw, now>>

\* broadcast_to_conversation up to its first send
broadcast_to_conversation(room) ==
    /\ bc.pc \in {"idle", "done"}
    /\ bc' = IF room \notin DOMAIN active_connections
             THEN [BcIdle EXCEPT !.pc = "done", !.room = room]
             ELSE [BcIdle EXCEPT !.pc = "send", !.room = room,
                                 !.snapshot = Members(room),
                                 !.todo = Members(room)]
    /\ UNCHANGED <<tmVars, orchVars, cacheVars, fnVars, selVars, heard, ep, hb, active_connections, sw, now>>

AfterSendBad(b, ws, ok) ==
    [b EXCEPT !.todo = IF ok THEN @ \ {ws} ELSE {},
              !.attempts[ws] = @ + 1,
              !.received = IF ok THEN @ \cup {ws} ELSE @,
              !.failed = IF ok THEN @ ELSE @ \cup {ws}]

\* the bookkeeping of one send_text that returned (ok) or raised
AfterSend(b, ws, ok) ==
    [b EXCEPT !.todo = @ \ {ws},
              !.attempts[ws] = @ + 1,
              !.received = IF ok THEN @ \cup {ws} ELSE @,
              !.failed = IF ok THEN @ ELSE @ \cup {ws}]

\* one send of the loop returns or raises; after the last one the failed
\* connections are disconnected and the publish starts
send_text_returns(ws, ok) ==
    /\ bc.pc = "send"
    /\ ws \in bc.todo
    /\ LET b == AfterSend(bc, ws, ok)
           marked == IF ok THEN Marked(active_connections, bc.room, ws, now)
                     ELSE active_connections
       IN  IF b.todo = {}
           THEN /\ bc' = [b EXCEPT !.pc = "publish"]
                /\ active_connections' = DisconnectAll(marked, b.failed, bc.room)
           ELSE /\ bc' = b
                /\ active_connections' = marked
    /\ UNCHANGED <<tmVars, orchVars, cacheVars, fnVars, selVars, heard, ep, hb, sw, now>>

\* _publish_to_redis returns (its errors are logged, not raised)
publish_returns ==
    /\ bc.pc = "publish"
    /\ bc' = [bc EXCEPT !.pc = "done", !.published = @ + 1]
    /\ UNCHANGED <<tmVars, orchVars, cacheVars, fnVars, selVars, heard, ep, hb, active_connections, sw, now>>

\* websocket.receive_text returned a frame: mark_heartbeat (websockets.py:54)
receive_text_returns(ws, room) ==
    /\ ws \in Members(room)
    /\ active_connections' = Marked(active_connections, room, ws, now)
    /\ active_connections' # active_connections
    /\ heard' = [heard EXCEPT ![ws] = now]
    /\ UNCHANGED <<tmVars, orchVars, cacheVars, fnVars, selVars, ep, hb, bc, sw, now>>

\* the (room, socket) pairs remove_stale_connections collects
StaleConnections ==
    {<<r, ws>> \in ConvIds \X Sockets :
        /\ r \in DOMAIN active_connections
        /\ ws \in DOMAIN active_connections[r]
        /\ now - active_connections[r][ws] > connection_timeout}

\* _heartbeat_loop wakes up: remove_stale_connections up to its first await
remove_stale_connections ==
    /\ hb.task = "running"
    /\ sw.pc \in {"idle", "done", "raised"}
    /\ sw' = [SwIdle EXCEPT !.stale = StaleConnections,
                            !.pc = IF StaleConnections = {} THEN "done" ELSE "frame"]
    /\ UNCHANGED <<tmVars, orchVars, cacheVars, fnVars, selVars, heard, ep, hb, active_connections, bc, now>>

\* send_error for the next collected pair returns; a send_text that raised
\* is logged by send_personal_message and not re-raised
sweep_send_error_returns(x, ok) ==
    /\ sw.pc = "frame"
    /\ x \in sw.stale
    /\ sw' = [sw EXCEPT !.pc = "close", !.cur = x, !.stale = @ \ {x},
                        !.framed = ok, !.closed = FALSE, !.count = 0,
                        !.st = BcIdle]
    /\ UNCHANGED <<tmVars, orchVars, cacheVars, fnVars, selVars, heard, ep, hb, active_connections, bc, now>>

\* where the sweep goes after the handling of one pair
SweepNext(s) ==
    [s EXCEPT !.pc = IF s.stale = {} THEN "done" ELSE "frame"]

\* websocket.close(code=1001) returns: disconnect, then
\* send_conversation_status up to the first send of its broadcast; or close
\* raises, and the exception leaves remove_stale_connections
sweep_close_returns(ok) ==
    /\ sw.pc = "close"
    /\ IF ok
       THEN LET room == sw.cur[1]
                conns == Disconnected(active_connections, sw.cur[2], room)
                s == [sw EXCEPT !.closed = TRUE,
                                !.count = IF room \in DOMAIN conns
                                          THEN Cardinality(DOMAIN conns[room])
                                          ELSE 0]
            IN  /\ active_connections' = conns
                /\ sw' = IF room \in DOMAIN conns
                         THEN [s EXCEPT !.pc = "status",
                                  !.st = [BcIdle EXCEPT !.pc = "send", !.room = room,
                                             !.snapshot = DOMAIN conns[room],
                                             !.todo = DOMAIN conns[room]]]
                         ELSE SweepNext(s)
                /\ UNCHANGED hb
       ELSE /\ sw' = [sw EXCEPT !.pc = "raised"]
            /\ hb' = [hb EXCEPT !.task = "done", !.live = @ - 1]
            /\ UNCHANGED active_connections
    /\ UNCHANGED <<tmVars, orchVars, cacheVars, fnVars, selVars, heard, ep, bc, now>>

\* one send of the status broadcast returns or raises
sweep_status_send_returns(ws, ok) ==
    /\ sw.pc = "status"
    /\ ws \in sw.st.todo
    /\ LET b == AfterSend(sw.st, ws, ok)
           marked == IF ok THEN Marked(active_connections, b.room, ws, now)
                     ELSE active_connections
       IN  IF b.todo = {}
           THEN /\ sw' = [sw EXCEPT !.pc = "publish", !.st = b]
                /\ active_connections' = DisconnectAll(marked, b.failed, b.room)
           ELSE /\ sw' = [sw EXCEPT !.st = b]
                /\ active_connections' = marked
    /\ UNCHANGED <<tmVars, orchVars, cacheVars, fnVars, selVars, heard, ep, hb, bc, now>>

\* _publish_to_redis of the status broadcast returns
sweep_status_returns ==
    /\ sw.pc = "publish"
    /\ sw' = SweepNext(sw)
    /\ UNCHANGED <<tmVars, orchVars, cacheVars, fnVars, selVars, heard, ep, hb, active_connections, bc, now>>

\* the text frames a client sends: text that is not JSON, JSON that is not
\* an object, an object whose type is not handled, and a ping
Frames == {"not_json", "not_object", "unknown_type", "ping"}

\* the disconnect requests: {"type": "disconnect"} without a reason and with
\* the reason "bye"
DisconnectFrames == {"disconnect", "disconnect_bye"}

DisconnectReasonBad(frame) == "client_requested"

\* message.get("reason", "client_requested")
DisconnectReason(frame) ==
    IF frame = "disconnect_bye" THEN "bye" ELSE "client_requested"

\* the try block of the receive loop on one frame, up to its first send:
\* json.loads raises JSONDecodeError on text that is not JSON; message.get
\* raises AttributeError on a value that is not a dict, which only the
\* outer except Exception catches
FrameOutcome(frame) ==
    CASE frame = "not_json" ->
             [raised |-> "JSONDecodeError", code |-> "invalid_json"]
      [] frame = "not_object" ->
             [raised |-> "AttributeError", code |-> "internal_error"]
      [] frame = "unknown_type" ->
             [raised |-> None, code |-> "unknown_message"]
      [] frame = "ping" ->
             [raised |-> None, code |-> "pong"]
      [] frame \in DisconnectFrames ->
             [raised |-> None, code |-> "disconnect"]

\* receive_text returns a frame: mark_heartbeat, json.loads and
\* handle_websocket_message up to the send of the answer
endpoint_receives(ws, room, frame) ==
    /\ ep.pc \in {"idle", "done", "closed"}
    /\ ws \in Members(room)
    /\ active_connections' = Marked(active_connections, room, ws, now)
    /\ ep' = [EpIdle EXCEPT !.pc = "send", !.ws = ws, !.room = room,
                            !.frame = frame, !.code = FrameOutcome(frame).code,
                            !.reason = IF frame \in DisconnectFrames
                                       THEN DisconnectReason(frame) ELSE None]
    /\ heard' = [heard EXCEPT ![ws] = now]
    /\ UNCHANGED <<tmVars, orchVars, cacheVars, fnVars, selVars, hb, bc, sw, now>>

ClientsCountBad(conns, room) ==
    IF room \in DOMAIN conns THEN Cardinality(DOMAIN conns[room]) - 1 ELSE 0

\* get_conversation_clients_count on a registry
ClientsCount(conns, room) ==
    IF room \in DOMAIN conns THEN Cardinality(DOMAIN conns[room]) ELSE 0

\* disconnect has run and left the registry conns: send_conversation_status
\* up to the first send of its broadcast, which returns at once when the
\* room is gone; next is where the endpoint goes after the broadcast
StatusStart(e, conns, next) ==
    IF e.room \in DOMAIN conns
    THEN [e EXCEPT !.pc = "status", !.next = next,
                   !.count = ClientsCount(conns, e.room),
                   !.trace = Append(@, "status"),
                   !.st = [BcIdle EXCEPT !.pc = "send", !.room = e.room,
                                         !.snapshot = DOMAIN conns[e.room],
                                         !.todo = DOMAIN conns[e.room]]]
    ELSE [e EXCEPT !.pc = next, !.count = ClientsCount(conns, e.room)]

\* the endpoint is called for a new socket: connect (accept, registration),
\* then the send of the connection confirmation begins; or accept raises,
\* connection_failed is sent and the socket closed
endpoint_connects(ws, room, ok) ==
    /\ ep.pc \in {"idle", "done", "closed"}
    /\ Fresh(ws)
    /\ LET e == [EpIdle EXCEPT !.ws = ws, !.room = room,
                               !.re = (ep.room = room /\ ~ep.open)]
       IN  IF ok
           THEN /\ active_connections' =
                      Put(active_connections, room,
                          Put(IF room \in DOMAIN active_connections
                              THEN active_connections[room] ELSE EmptyDict, ws, now))
                /\ ep' = [e EXCEPT !.pc = "hello", !.code = "connection"]
                /\ hb' = EnsureHeartbeatTask(hb)
                /\ heard' = [heard EXCEPT ![ws] = now]
           ELSE /\ ep' = [e EXCEPT !.pc = "closed", !.code = "connection_failed",
                                   !.open = FALSE]
                /\ UNCHANGED <<active_connections, hb, heard>>
    /\ UNCHANGED <<tmVars, orchVars, cacheVars, fnVars, selVars, bc, sw, now>>

\* the send of the connection confirmation returns (or raised and was
\* logged): send_conversation_status up to the first send of its broadcast
endpoint_hello_returns(ok) ==
    /\ ep.pc = "hello"
    /\ ep' = StatusStart([ep EXCEPT !.sent = ok, !.trace = Append(@, ep.code)],
                         active_connections, "done")
    /\ UNCHANGED <<tmVars, orchVars, cacheVars, fnVars, selVars, heard, hb, active_connections, bc, sw, now>>

\* the send of the answer returns (send_personal_message logs a send that
\* raised). After pong: mark_heartbeat. After internal_error: disconnect,
\* then send_conversation_status. After the disconnect frame: close(1000).
\* After the other error frames the loop is back at receive_text.
endpoint_send_returns(ok) ==
    /\ ep.pc = "send"
    /\ LET e == [ep EXCEPT !.sent = ok, !.trace = Append(@, ep.code)]
       IN  IF ep.code = "internal_error"
           THEN LET conns == Disconnected(active_connections, ep.ws, ep.room)
                IN  /\ active_connections' = conns
                    /\ ep' = StatusStart([e EXCEPT !.trace = Append(@, "removed")],
                                         conns, "close")
           ELSE /\ ep' = [e EXCEPT !.pc = IF ep.code = "disconnect"
                                          THEN "dclose" ELSE "done"]
                /\ active_connections' =
                      IF ep.code = "pong"
                      THEN Marked(active_connections, ep.room, ep.ws, now)
                      ELSE active_connections
    /\ UNCHANGED <<tmVars, orchVars, cacheVars, fnVars, selVars, heard, hb, bc, sw, now>>

\* websocket.close(code=1000) of a disconnect request returns: disconnect,
\* then send_conversation_status; or it raises, and the outer except
\* Exception of the endpoint sends internal_error
endpoint_dclose_returns(ok) ==
    /\ ep.pc = "dclose"
    /\ IF ok
       THEN LET conns == Disconnected(active_connections, ep.ws, ep.room)
            IN  /\ active_connections' = conns
                /\ ep' = StatusStart([ep EXCEPT !.open = FALSE,
                                                !.trace = @ \o <<"close", "removed">>],
                                     conns, "recv")
       ELSE /\ ep' = [ep EXCEPT !.pc = "send", !.code = "internal_error"]
            /\ UNCHANGED active_connections
    /\ UNCHANGED <<tmVars, orchVars, cacheVars, fnVars, selVars, heard, hb, bc, sw, now>>

\* one send of the status broadcast returns or raises
endpoint_status_send_returns(ws, ok) ==
    /\ ep.pc = "status"
    /\ ws \in ep.st.todo
    /\ LET b == AfterSend(ep.st, ws, ok)
           marked == IF ok THEN Marked(active_connections, b.room, ws, now)
                     ELSE active_connections
       IN  IF b.todo = {}
           THEN /\ ep' = [ep EXCEPT !.pc = "publish", !.st = b]
                /\ active_connections' = DisconnectAll(marked, b.failed, b.room)
           ELSE /\ ep' = [ep EXCEPT !.st = b]
                /\ active_connections' = marked
    /\ UNCHANGED <<tmVars, orchVars, cacheVars, fnVars, selVars, heard, hb, bc, sw, now>>

\* _publish_to_redis of that broadcast returns
endpoint_status_returns ==
    /\ ep.pc = "publish"
    /\ ep' = [ep EXCEPT !.pc = ep.next]
    /\ UNCHANGED <<tmVars, orchVars, cacheVars, fnVars, selVars, heard, hb, active_connections, bc, sw, now>>

\* back in the loop after a disconnect request, receive_text on the closed
\* socket raises: WebSocketDisconnect (disconnect again, status again) or
\* another exception (the internal_error path), as the server library has it
endpoint_receive_raises(kind) ==
    /\ ep.pc = "recv"
    /\ IF kind = "WebSocketDisconnect"
       THEN LET conns == Disconnected(active_connections, ep.ws, ep.room)
            IN  /\ active_connections' = conns
                /\ ep' = StatusStart([ep EXCEPT !.trace = Append(@, "removed")],
                                     conns, "closed")
       ELSE /\ ep' = [ep EXCEPT !.pc = "send", !.code = "internal_error"]
            /\ UNCHANGED active_connections
    /\ UNCHANGED <<tmVars, orchVars, cacheVars, fnVars, selVars, heard, hb, bc, sw, now>>

\* websocket.close(code=1011) returns or raises: the endpoint is over
endpoint_close_returns ==
    /\ ep.pc = "close"
    /\ ep' = [ep EXCEPT !.pc = "closed", !.open = FALSE]
    /\ UNCHANGED <<tmVars, orchVars, cacheVars, fnVars, selVars, heard, hb, active_connections, bc, sw, now>>

Tick ==
    /\ now < MaxTime
    /\ now' = now + 1
    /\ UNCHANGED <<tmVars, orchVars, cacheVars, fnVars, selVars, heard, ep, hb, active_connections, bc, sw>>

\* a time as it reads one tick later on a clock that stands at MaxTime: what
\* is older than the clock can tell stays at 0
Aged(t) == IF t > 0 THEN t - 1 ELSE 0

\* time passes while the clock stands at MaxTime: every recorded time ages by
\* one tick instead. MaxTime > connection_timeout, so that a time of 0 is
\* stale at MaxTime and ageing keeps what remove_stale_connections computes.
TickOn ==
    /\ now = MaxTime
    /\ active_connections' =
          [r \in DOMAIN active_connections |->
              [ws \in DOMAIN active_connections[r] |->
                  Aged(active_connections[r][ws])]]
    /\ heard' = [ws \in Sockets |-> Aged(heard[ws])]
    /\ UNCHANGED <<tmVars, orchVars, cacheVars, fnVars, selVars, ep, hb, bc, sw, now>>


----------------------------------------------------------------------------
(* TopicAnalyzer (topic_analyzer.py) *)

\* the keys of topic_categories, in dict order
TopicOrder ==
    <<"philosophy", "science", "technology", "creativity", "humor", "society">>

Topics == Range(TopicOrder)

\* no TopicAnalyzer call was made
TaIdle == [scores |-> EmptyDict, participants |-> <<>>, turn_count |-> 0,
           result |-> "pending"]

\* the complements dict of _get_complementary_topics
complements ==
    [philosophy |-> <<"science", "creativity", "technology">>,
     science    |-> <<"philosophy", "technology", "humor">>,
     technology |-> <<"philosophy", "science", "society">>,
     creativity |-> <<"philosophy", "humor", "technology">>,
     humor      |-> <<"science", "society", "creativity">>,
     society    |-> <<"philosophy", "technology", "science">>]

\* l.insert(0, x) if x not in l
InsertFirstIfAbsent(l, x) == IF x \in Range(l) THEN l ELSE <<x>> \o l

\* l[:n]
Prefix(l, n) == SubSeq(l, 1, IF Len(l) < n THEN Len(l) ELSE n)

get_complementary_topics(current_topic, participants) ==
    LET a == IF current_topic \in DOMAIN complements
             THEN complements[current_topic] ELSE <<>>
        b == IF "philosopher" \in Range(participants)
             THEN InsertFirstIfAbsent(a, "philosophy") ELSE a
        c == IF "scientist" \in Range(participants)
             THEN InsertFirstIfAbsent(b, "science") ELSE b
        d == IF "comedian" \in Range(participants)
             THEN InsertFirstIfAbsent(c, "humor") ELSE c
    IN  Prefix(d, 2)

\* max(scores.items(), key=score): the first topic, in dict order, that has
\* the largest score
DominantTopic(scores) ==
    LET i == CHOOSE i \in DOMAIN TopicOrder :
                 /\ \A j \in DOMAIN TopicOrder :
                        scores[TopicOrder[j]] <= scores[TopicOrder[i]]
                 /\ \A j \in 1 .. (i - 1) :
                        scores[TopicOrder[j]] < scores[TopicOrder[i]]
    IN  TopicOrder[i]

suggest_topic_shiftBad(scores, participants, turn_count) ==
    IF turn_count < 6 \/ turn_count > 15 THEN None
    ELSE LET dominant == DominantTopic(scores)
             suggestions == get_complementary_topics(dominant, participants)
         IN  IF scores[dominant] >= 60 /\ suggestions # <<>>
             THEN suggestions[1] ELSE None

\* suggest_topic_shift on scores in hundredths (0.6 is 60), for a non-empty
\* scores dict
suggest_topic_shift(scores, participants, turn_count) ==
    IF turn_count < 6 \/ turn_count > 15 THEN None
    ELSE LET dominant == DominantTopic(scores)
             suggestions == get_complementary_topics(dominant, participants)
         IN  IF scores[dominant] > 60 /\ suggestions # <<>>
             THEN suggestions[1] ELSE None

----------------------------------------------------------------------------
(* ResponseCache over RedisClient (response_cache.py, core/redis_client.py) *)

\* message contents as character sequences
Hi == <<"h", "i">>
HiPadded == <<" ", "h", "i", " ">>
Yo == <<"y", "o">>

\* str.strip()
RECURSIVE LStrip(_)
LStrip(s) == IF s # <<>> /\ Head(s) = " " THEN LStrip(Tail(s)) ELSE s

RECURSIVE RStrip(_)
RStrip(s) ==
    IF s # <<>> /\ s[Len(s)] = " " THEN RStrip(SubSeq(s, 1, Len(s) - 1)) ELSE s

Strip(s) == RStrip(LStrip(s))

ChatMessage(role, content) == [role |-> role, content |-> content]

\* dict.get(k, default)
DictGet(d, k, default) == IF k \in DOMAIN d THEN d[k] ELSE default

\* persona parameter dicts; temperature in tenths
Params(t, m) == [k \in {"temperature", "max_tokens"} |->
                    IF k = "temperature" THEN t ELSE m]
NoParams == EmptyDict

generate_cache_keyBad(provider_name, messages, persona_params) ==
    [provider |-> provider_name,
     messages |-> [i \in 1 .. Len(messages) |->
                      [role |-> messages[i].role,
                       content |-> Strip(messages[i].content)]],
     max_tokens |-> DictGet(persona_params, "max_tokens", 150),
     stream |-> FALSE]

\* _generate_cache_key: the components that are serialised and hashed (the
\* sha256 prefix is taken to be injective on them)
generate_cache_key(provider_name, messages, persona_params) ==
    [provider |-> provider_name,
     messages |-> [i \in 1 .. Len(messages) |->
                      [role |-> messages[i].role,
                       content |-> Strip(messages[i].content)]],
     temperature |-> DictGet(persona_params, "temperature", 7),
     max_tokens |-> DictGet(persona_params, "max_tokens", 150),
     stream |-> FALSE]

\* json.dumps and json.loads of the cached dict
JsonDumps(v) == [json |-> v]
JsonLoads(raw) == raw.json

\* RedisClient: client is "self.redis is set"; fallback is _fallback_store;
\* server is what the Redis server holds
CacheIdle == [client |-> FALSE, fallback |-> EmptyDict, server |-> EmptyDict]

\* no ResponseCache call yet. A call records its input, argument and result,
\* where Redis or the fallback served it (place), whether Redis raised on
\* its read (failed) or write (wfailed), what the lookup gave (cached), what
\* the fallback held before (held) and every (input, response) stored so far
NoInput == [provider |-> None, messages |-> <<>>, params |-> EmptyDict]

NoCacheCall ==
    [op |-> "none", inp |-> NoInput, arg |-> None, val |-> None, place |-> None,
     failed |-> FALSE, wfailed |-> FALSE, cached |-> None, held |-> None,
     stored |-> {}]

\* ResponseCache.ensure_connected: redis.from_url builds the client without
\* contacting the server
EnsureConnected(c) == [c EXCEPT !.client = TRUE]

\* an optional value: <<>> is Python's None, <<v>> the value v
Opt(d, key) == IF key \in DOMAIN d THEN <<d[key]>> ELSE <<>>

\* RedisClient.get; up: the Redis call answers instead of raising
RedisGet(c, key, up) ==
    IF c.client /\ up
    THEN [c |-> c, raw |-> Opt(c.server, key), place |-> "server"]
    ELSE [c |-> [c EXCEPT !.client = FALSE],
          raw |-> Opt(c.fallback, key), place |-> "fallback"]

\* RedisClient.set
RedisSet(c, key, value, up) ==
    IF c.client /\ up
    THEN [c |-> [c EXCEPT !.server = Put(@, key, value)], place |-> "server"]
    ELSE [c |-> [c EXCEPT !.client = FALSE, !.fallback = Put(@, key, value)],
          place |-> "fallback"]

\* RedisClient.get_json
GetJson(c, key, up) ==
    LET g == RedisGet(c, key, up)
    IN  [c |-> g.c, place |-> g.place,
         data |-> IF g.raw = <<>> THEN <<>> ELSE <<JsonLoads(g.raw[1])>>]

\* ResponseCache.get_cached_response on input x = [provider, messages, params]
GetCachedResponse(c, x, up) ==
    LET c1 == EnsureConnected(c)
        g == GetJson(c1, generate_cache_key(x.provider, x.messages, x.params), up)
    IN  [c |-> g.c, place |-> g.place, failed |-> c1.client /\ ~up,
         val |-> IF g.data # <<>> THEN g.data[1].response ELSE None]

\* ResponseCache.cache_response
CacheResponse(c, x, response, up) ==
    LET c1 == EnsureConnected(c)
        s == RedisSet(c1, generate_cache_key(x.provider, x.messages, x.params),
                      JsonDumps([response |-> response, timestamp |-> 0]), up)
    IN  [c |-> s.c, place |-> s.place, failed |-> c1.client /\ ~up]

\* the part of _generate_response from the cache lookup on (lines 329-362);
\* chat is what the provider's stream adds up to after strip(), None when
\* it raises
GenerateFromBad(c, x, upr, upw, chat) ==
    LET g == GetCachedResponse(c, x, upr)
    IN  [c |-> g.c, val |-> IF g.failed THEN None ELSE chat, rd |-> g,
         wrote |-> FALSE, wfailed |-> FALSE]

GenerateFrom(c, x, upr, upw, chat) ==
    LET g == GetCachedResponse(c, x, upr)
    IN  IF g.val \notin {None, ""}
        THEN [c |-> g.c, val |-> g.val, rd |-> g, wrote |-> FALSE, wfailed |-> FALSE]
        ELSE IF chat \in {None, ""}
        THEN [c |-> g.c, val |-> chat, rd |-> g, wrote |-> FALSE, wfailed |-> FALSE]
        ELSE LET w == CacheResponse(g.c, x, chat, upw)
             IN  [c |-> w.c, val |-> chat, rd |-> g, wrote |-> TRUE,
                  wfailed |-> w.failed]

----------------------------------------------------------------------------
(* ConversationOrchestrator: start, stop and the _conversation_loop tasks *)

\* iterations of one _conversation_loop: the source has range(20); the model
\* explores loops of TurnLimit iterations
TurnLimit == 3

\* the tasks asyncio.create_task makes, in creation order
TaskIds == <<"t1", "t2">>

\* the text _generate_response returns when no provider was selected
Apology == "I'm having trouble connecting to my AI brain right now!"

\* response_text.strip() of a provider that produced only white space
EmptyText == ""

\* a task that has not reached its first iteration; steps is the history of
\* the calls of the current iteration that have returned
NewLoop(c) ==
    [cid |-> c, pc |-> "top", turn |-> 0, speaker |-> None,
     provider |-> "unset", response |-> None, said |-> FALSE,
     why |-> "running", steps |-> <<>>]

Running(t) == t \in DOMAIN loops /\ loops[t].pc # "ended"

\* the code after the loop: the task is over
Ended(l, why) ==
    [NewLoop(l.cid) EXCEPT !.pc = "ended", !.why = why]

NextIterationBad(l) == NewLoop(l.cid)

\* the for statement takes the next value of range(20)
NextIteration(l) ==
    [NewLoop(l.cid) EXCEPT !.turn = l.turn + 1]

NoProviderResponseBad == None

\* line 313: what _generate_response returns when selection returned None
NoProviderResponse == Apology

\* the (provider, response) pairs _generate_response can end with for a
\* persona: an exception before selection, no provider, or a selected
\* provider whose chat raised, gave white space, or gave text (fresh or cached)
Generations(persona) ==
    {[provider |-> "unset", response |-> None]}
    \cup UNION {
        LET r == SelectRun(SelBegin(persona, "auto", provider_persona_assignment,
                                    providers),
                           h, provider_persona_assignment, providers).result
        IN  IF r = None
            THEN {[provider |-> None, response |-> NoProviderResponse]}
            ELSE {[provider |-> r, response |-> x] : x \in {None, EmptyText, "text"}}
        : h \in [ProviderNames -> BOOLEAN] }

\* "if not response"
Falsy(response) == response \in {None, EmptyText}

AfterFailedGenerationBad(l) == Ended(l, "error")

\* "continue"
AfterFailedGeneration(l) == NextIteration(l)

MarkStopped(c) ==
    [t \in DOMAIN loops |->
        IF loops[t].cid = c /\ Running(t)
        THEN [stopped |-> TRUE, msgs |-> 0] ELSE after_stop[t]]

\* the steps of start_conversation after the scheduler initialisation that
\* write the conversation log file, in order; the welcome broadcast and
\* create_task follow log_message
StartWrites == <<"start_conversation_log", "log_event", "log_message">>

\* the step of start_conversation that raises (its file write fails), or None
StartRaises == Range(StartWrites) \cup {None}

\* ConversationOrchestrator.start_conversation. The scheduler state is
\* written first; raises names the logging step whose file write fails, if
\* any. The except block then logs an error event to the same file (the
\* session was registered before the first write): hw tells whether that
\* write goes through, and when it does not the exception leaves the call.
orch_start_conversation(c, participants, raises, hw) ==
    /\ Len(TaskIds) > Cardinality(DOMAIN loops)
    /\ TMStart(c, participants)
    /\ IF raises = None
       THEN LET t == TaskIds[Cardinality(DOMAIN loops) + 1]
            IN  /\ loops' = Put(loops, t, NewLoop(c))
                /\ after_stop' = Put(after_stop, t, [stopped |-> FALSE, msgs |-> 0])
       ELSE UNCHANGED <<loops, after_stop>>
    /\ oret' = [op |-> "start_conversation", cid |-> c, arg |-> None,
                val |-> (raises = None),
                raised |-> (raises # None /\ ~hw)]
    /\ UNCHANGED <<ret, selVars, hubVars, cacheVars, fnVars>>

\* ConversationOrchestrator.stop_conversation
orch_stop_conversation(c) ==
    /\ TMStop(c)
    /\ after_stop' = MarkStopped(c)
    /\ oret' = [op |-> "stop_conversation", cid |-> c, arg |-> None, val |-> None,
                raised |-> FALSE]
    /\ UNCHANGED <<ret, loops, selVars, hubVars, cacheVars, fnVars>>

\* loop header, get_next_speaker and the typing indicator, for a range of
\* limit iterations
LoopTopUpTo(t, limit) ==
    /\ Running(t) /\ loops[t].pc = "top"
    /\ LET l == loops[t]
       IN  IF l.turn = limit
           THEN /\ loops' = [loops EXCEPT ![t] = Ended(l, "limit")]
                /\ UNCHANGED tmVars
           ELSE \E v \in NextSpeakers(l.cid) :
                  /\ TMGetNext(l.cid, v)
                  /\ loops' = [loops EXCEPT ![t] =
                        IF v = None THEN Ended(l, "none")
                        ELSE IF v = "IndexError" THEN Ended(l, "error")
                        ELSE [l EXCEPT !.pc = "gen", !.speaker = v,
                                       !.steps = <<"get_next_speaker", "typing">>]]
                  /\ UNCHANGED ret
    /\ UNCHANGED <<after_stop, oret, selVars, hubVars, cacheVars, fnVars>>

LoopTop(t) == LoopTopUpTo(t, TurnLimit)

\* add_natural_delay and _generate_response
LoopGenerate(t) ==
    /\ Running(t) /\ loops[t].pc = "gen"
    /\ \E g \in Generations(loops[t].speaker) :
          loops' = [loops EXCEPT ![t] = [@ EXCEPT !.pc = "got",
                                                  !.provider = g.provider,
                                                  !.response = g.response,
                                                  !.steps = @ \o <<"delay", "generate">>]]
    /\ UNCHANGED <<tmVars, after_stop, oret, selVars, hubVars, cacheVars, fnVars>>

SaveAndBroadcastBad(l) ==
    [l EXCEPT !.pc = "upd", !.said = TRUE,
              !.steps = @ \o <<"broadcast", "persist">>]

\* _save_and_broadcast_message: _save_message_to_database (which logs and
\* swallows a failing save), then broadcast_to_conversation
SaveAndBroadcast(l) ==
    [l EXCEPT !.pc = "upd", !.said = TRUE,
              !.steps = @ \o <<"persist", "broadcast">>]

\* "if not response: continue", else _save_and_broadcast_message
LoopGot(t) ==
    /\ Running(t) /\ loops[t].pc = "got"
    /\ IF Falsy(loops[t].response)
       THEN /\ loops' = [loops EXCEPT ![t] = AfterFailedGeneration(@)]
            /\ UNCHANGED after_stop
       ELSE /\ loops' = [loops EXCEPT ![t] = SaveAndBroadcast(@)]
            /\ after_stop' = [after_stop EXCEPT ![t] =
                  IF @.stopped /\ @.msgs < 2 THEN [@ EXCEPT !.msgs = @ + 1] ELSE @]
    /\ UNCHANGED <<tmVars, oret, selVars, hubVars, cacheVars, fnVars>>

\* update_last_speaker
LoopUpdate(t) ==
    /\ Running(t) /\ loops[t].pc = "upd"
    /\ TMUpdate(loops[t].cid, loops[t].speaker)
    /\ loops' = [loops EXCEPT ![t] = [@ EXCEPT !.pc = "pause",
                                              !.steps = Append(@, "update")]]
    /\ UNCHANGED <<ret, after_stop, oret, selVars, hubVars, cacheVars, fnVars>>

\* _check_topic_routing and the pause between messages
LoopPause(t) ==
    /\ Running(t) /\ loops[t].pc = "pause"
    /\ loops' = [loops EXCEPT ![t] = NextIteration(@)]
    /\ UNCHANGED <<tmVars, after_stop, oret, selVars, hubVars, cacheVars, fnVars>>

\* participant lists the HTTP layer starts conversations with
OrchParticipantLists == {<<>>, <<"philosopher", "comedian">>}

OrchConvIds == {"c1"}

Init ==
    /\ active_conversations = EmptyDict
    /\ redis = EmptyDict
    /\ ret = NoCall
    /\ stopped = {}
    /\ nupdates = EmptyDict
    /\ pending = {}
    /\ loops = EmptyDict
    /\ after_stop = EmptyDict
    /\ oret = NoCall
    /\ providers = ProviderMap({"openai", "demo"})
    /\ provider_persona_assignment = InitializeAssignment(providers)
    /\ health = [n \in ProviderNames |-> TRUE]
    /\ model = DefaultModels
    /\ sel = SelIdle
    /\ selg = SelgIdle
    /\ rl = RlIdle
    /\ cache = CacheIdle
    /\ cret = NoCacheCall
    /\ active_connections = EmptyDict
    /\ bc = BcIdle
    /\ sw = SwIdle
    /\ ep = EpIdle
    /\ hb = HbIdle
    /\ heard = [ws \in Sockets |-> 0]
    /\ ta = TaIdle
    /\ keys = {}
    /\ now = 0

Next ==
    \/ \E c \in OrchConvIds, ps \in OrchParticipantLists, raises \in StartRaises,
          hw \in BOOLEAN :
          orch_start_conversation(c, ps, raises, hw)
    \/ \E c \in OrchConvIds : orch_stop_conversation(c)
    \/ \E t \in Range(TaskIds) : LoopTop(t)
    \/ \E t \in Range(TaskIds) : LoopGenerate(t)
    \/ \E t \in Range(TaskIds) : LoopGot(t)
    \/ \E t \in Range(TaskIds) : LoopUpdate(t)
    \/ \E t \in Range(TaskIds) : LoopPause(t)

Spec == Init /\ [][Next]_vars

\* SpecLoop: one conversation whose loop task is created once, with stops
\* and failing restarts around it; the event loop runs the task whenever
\* its awaited call has completed
NextLoop ==
    \/ \E c \in OrchConvIds, ps \in OrchParticipantLists, raises \in StartRaises,
          hw \in BOOLEAN :
          /\ raises = None => loops = EmptyDict
          /\ orch_start_conversation(c, ps, raises, hw)
    \/ \E c \in OrchConvIds : orch_stop_conversation(c)
    \/ \E t \in Range(TaskIds) : LoopTop(t)
    \/ \E t \in Range(TaskIds) : LoopGenerate(t)
    \/ \E t \in Range(TaskIds) : LoopGot(t)
    \/ \E t \in Range(TaskIds) : LoopUpdate(t)
    \/ \E t \in Range(TaskIds) : LoopPause(t)

\* the await of _generate_response is over, whatever it returned
GenerationReturns(t) ==
    /\ Running(t) /\ loops[t].pc = "gen"
    /\ \E p \in ProviderNames \cup {"unset", None},
          r \in {None, EmptyText, Apology, "text"} :
          loops' = [loops EXCEPT ![t] = [@ EXCEPT !.pc = "got", !.provider = p,
                                                  !.response = r,
                                                  !.steps = @ \o <<"delay", "generate">>]]
    /\ UNCHANGED <<tmVars, after_stop, oret, selVars, hubVars, cacheVars, fnVars>>

\* the awaits of the task t complete
AwaitsReturn(t) ==
    LoopTop(t) \/ GenerationReturns(t) \/ LoopGot(t) \/ LoopUpdate(t) \/ LoopPause(t)

SpecLoop == Init /\ [][NextLoop]_vars /\ WF_vars(AwaitsReturn(TaskIds[1]))

\* the health check or the chat call a provider was handed in
\* _generate_response is one that never returns: the task stays in its await
\* (the calls are awaited as they are, without wait_for or another timeout)
ProviderNeverReturns(t) ==
    /\ Running(t) /\ loops[t].pc = "gen"
    /\ loops' = [loops EXCEPT ![t] = [@ EXCEPT !.pc = "hung"]]
    /\ UNCHANGED <<tmVars, after_stop, oret, selVars, hubVars, cacheVars, fnVars>>

\* SpecHang: SpecLoop with providers that may never return
NextHang ==
    \/ NextLoop
    \/ \E t \in Range(TaskIds) : ProviderNeverReturns(t)

SpecHang == Init /\ [][NextHang]_vars /\ WF_vars(AwaitsReturn(TaskIds[1]))

----------------------------------------------------------------------------
(* SpecTM: calls on one TurnManager, one after the other *)

\* values a store left by an earlier process can hold for an id
PriorValues ==
    { Corrupt,
      Dumps([participants |-> <<"philosopher", "comedian">>, current_turn |-> 1,
             is_active |-> TRUE, last_speaker |-> "philosopher"]),
      Dumps([participants |-> <<"philosopher", "comedian">>, current_turn |-> 2,
             is_active |-> FALSE, last_speaker |-> "comedian"]) }

InitRest ==
    /\ loops = EmptyDict
    /\ after_stop = EmptyDict
    /\ oret = NoCall
    /\ providers = <<>>
    /\ provider_persona_assignment = EmptyDict
    /\ health = EmptyDict
    /\ model = DefaultModels
    /\ sel = SelIdle
    /\ selg = SelgIdle
    /\ rl = RlIdle
    /\ cache = CacheIdle
    /\ cret = NoCacheCall
    /\ active_connections = EmptyDict
    /\ bc = BcIdle
    /\ sw = SwIdle
    /\ ep = EpIdle
    /\ hb = HbIdle
    /\ heard = [ws \in Sockets |-> 0]
    /\ ta = TaIdle
    /\ keys = {}
    /\ now = 0

InitTM ==
    /\ active_conversations = EmptyDict
    /\ redis \in {EmptyDict} \cup {Put(EmptyDict, "c1", v) : v \in PriorValues}
    /\ ret = NoCall
    /\ stopped = {}
    /\ nupdates = EmptyDict
    /\ pending = {}
    /\ InitRest

start_conversation(c, participants) ==
    /\ TMStart(c, participants)
    /\ ret' = [op |-> "start_conversation", cid |-> c, arg |-> participants,
               val |-> None]
    /\ UNCHANGED <<orchVars, cacheVars, fnVars, selVars, hubVars>>

\* prev: what the call before returned, when it was a get_next_speaker of
\* the same conversation
get_next_speaker(c) ==
    \E v \in Personas \cup {None, "IndexError"} :
        /\ TMGetNext(c, v)
        /\ ret' = [op |-> "get_next_speaker", cid |-> c, arg |-> None, val |-> v,
                   prev |-> IF ret.op = "get_next_speaker" /\ ret.cid = c
                            THEN <<ret.val>> ELSE <<>>]
        /\ UNCHANGED <<orchVars, cacheVars, fnVars, selVars, hubVars>>

update_last_speaker(c, speaker) ==
    /\ HasState(c) => GetState(c).current_turn < MaxTurnCount
    /\ TMUpdate(c, speaker)
    /\ ret' = [op |-> "update_last_speaker", cid |-> c, arg |-> speaker, val |-> None]
    /\ UNCHANGED <<orchVars, cacheVars, fnVars, selVars, hubVars>>

stop_conversation(c) ==
    /\ TMStop(c)
    /\ ret' = [op |-> "stop_conversation", cid |-> c, arg |-> None, val |-> None]
    /\ UNCHANGED <<orchVars, cacheVars, fnVars, selVars, hubVars>>

NextTM ==
    \/ \E c \in ConvIds, ps \in ParticipantLists : start_conversation(c, ps)
    \/ \E c \in ConvIds : get_next_speaker(c)
    \/ \E c \in ConvIds, s \in Personas : update_last_speaker(c, s)
    \/ \E c \in ConvIds : stop_conversation(c)

SpecTM == InitTM /\ [][NextTM]_vars

----------------------------------------------------------------------------
(* SpecIso: the calls of the TurnManager and of the WebSocketManager on two
   conversations. The two managers are separate objects that share no
   attribute, so a behaviour runs the calls of one of them or the calls of
   the other. *)

\* no call of the WebSocketManager was made
HubUntouched == active_connections = EmptyDict /\ bc = BcIdle /\ hb = HbIdle /\ now = 0

\* no call of the TurnManager was made
TMUntouched == ret = NoCall /\ active_conversations = EmptyDict

NextIsoHub ==
    \/ \E ws \in {1, 2}, room \in ConvIds : connect(ws, room)
    \/ \E ws \in {1, 2}, room \in ConvIds : disconnect(ws, room)
    \/ \E room \in ConvIds : broadcast_to_conversation(room)
    \/ \E ws \in {1, 2}, ok \in BOOLEAN : send_text_returns(ws, ok)
    \/ publish_returns
    \/ Tick

NextIso ==
    \/ HubUntouched /\ NextTM
    \/ TMUntouched /\ NextIsoHub

SpecIso == InitTM /\ [][NextIso]_vars

\* what the TurnManager holds for a conversation, in its cache and in the store
SchedulerEntry(c) ==
    <<IF c \in DOMAIN active_conversations THEN <<active_conversations[c]>> ELSE <<>>,
      IF c \in DOMAIN redis THEN <<redis[c]>> ELSE <<>>>>

\* what the WebSocketManager holds for a room
RoomEntry(room) ==
    IF room \in DOMAIN active_connections THEN <<active_connections[room]>> ELSE <<>>

\* C35: start_conversation, update_last_speaker and stop_conversation on a
\* conversation leave what the TurnManager holds for every other
\* conversation as it was; connect, disconnect and broadcast_to_conversation
\* on a room leave every other room as it was, and a broadcast makes a send
\* attempt on no connection registered in another room.
C35_ConversationsAreIsolated ==
    [][ /\ \A b \in ConvIds :
             (ret'.op \in {"start_conversation", "update_last_speaker",
                            "stop_conversation"} /\ ret'.cid # b) =>
                (SchedulerEntry(b))' = SchedulerEntry(b)
        /\ \A a \in ConvIds : \A b \in ConvIds \ {a} :
             /\ (\E ws \in {1, 2} : connect(ws, a) \/ disconnect(ws, a)) =>
                    (RoomEntry(b))' = RoomEntry(b)
             /\ (bc' # bc /\ bc'.room = a) =>
                    /\ (RoomEntry(b))' = RoomEntry(b)
                    /\ \A ws \in Sockets :
                          bc'.attempts[ws] > bc.attempts[ws] => ws \notin Members(b)
       ]_vars

\* a broadcast to c1 has reached its one connection while c2 holds another
\* connection, whose heartbeat is older
C35_Witness ==
    /\ bc.room = "c1" /\ bc.pc = "done" /\ bc.received # {}
    /\ Members("c2") # {}
    /\ \A ws \in Members("c2") :
          /\ bc.attempts[ws] = 0
          /\ active_connections["c2"][ws] < now

----------------------------------------------------------------------------
(* SpecDur: the calls of one TurnManager up to their redis_client.set, and
   the sets reaching the store. update_last_speaker is called by the loop
   task, one call after the other; start_conversation and stop_conversation
   by request handlers, each a task of its own. A set is awaited after the
   in-memory state is written (turn_manager.py:21, 80, 95), and the sets of
   different tasks travel on different connections of the client's pool, so
   that they reach the store in any order. *)

DurConvIds == {"c1"}

DurParticipants == <<"philosopher", "comedian">>

\* the redis_client.set a call awaits: the key and json.dumps of the state as
\* it is when the call reaches the await
Write(op, c, st) == [op |-> op, cid |-> c, value |-> Dumps(st)]

\* start_conversation up to its await
start_issues(c, participants) ==
    /\ Cardinality(pending) < MaxInFlight
    /\ active_conversations' = Put(active_conversations, c, NewState(participants))
    /\ pending' = pending \cup {Write("start", c, NewState(participants))}
    /\ UNCHANGED <<redis, ret, stopped, nupdates, orchVars, cacheVars, fnVars,
                   selVars, hubVars>>

\* update_last_speaker up to its await; the loop, which is created after a
\* start_conversation has returned, has no other call running
update_issues(c, speaker) ==
    /\ Cardinality(pending) < MaxInFlight
    /\ c \in DOMAIN redis
    /\ \A w \in pending : ~(w.op = "update" /\ w.cid = c)
    /\ HasState(c)
    /\ GetState(c).current_turn < MaxTurnCount
    /\ LET st == UpdatedState(GetState(c), speaker)
       IN  /\ active_conversations' = Put(CacheAfterGet(c), c, st)
           /\ pending' = pending \cup {Write("update", c, st)}
    /\ UNCHANGED <<redis, ret, stopped, nupdates, orchVars, cacheVars, fnVars,
                   selVars, hubVars>>

\* stop_conversation up to its await
stop_issues(c) ==
    /\ Cardinality(pending) < MaxInFlight
    /\ HasState(c)
    /\ LET st == StoppedState(GetState(c))
       IN  /\ active_conversations' = Put(CacheAfterGet(c), c, st)
           /\ pending' = pending \cup {Write("stop", c, st)}
    /\ UNCHANGED <<redis, ret, stopped, nupdates, orchVars, cacheVars, fnVars,
                   selVars, hubVars>>

\* a set reaches the store and the call that awaits it returns
set_returns(w) ==
    /\ w \in pending
    /\ redis' = Put(redis, w.cid, w.value)
    /\ pending' = pending \ {w}
    /\ UNCHANGED <<active_conversations, ret, stopped, nupdates, orchVars,
                   cacheVars, fnVars, selVars, hubVars>>

InitDur == InitTM /\ redis = EmptyDict

NextDur ==
    \/ \E c \in DurConvIds : start_issues(c, DurParticipants)
    \/ \E c \in DurConvIds, s \in Range(DurParticipants) : update_issues(c, s)
    \/ \E c \in DurConvIds : stop_issues(c)
    \/ \E w \in pending : set_returns(w)

SpecDur == InitDur /\ [][NextDur]_vars

\* C36: when every start, update and stop call has returned, the store holds
\* for each conversation the state the TurnManager holds in memory, so that
\* a TurnManager with an empty cache reads the same state.
C36_StoreEqualsMemory ==
    pending = {} =>
        \A c \in DOMAIN active_conversations :
            /\ c \in DOMAIN redis
            /\ redis[c] = Dumps(active_conversations[c])

----------------------------------------------------------------------------
(* SpecSel: one selection call at a time, health answers changing freely *)

SelPersonas == {"philosopher", "comedian", "poet"}

ManualChoices == {"auto", None, "claude", "demo", "gemini"}

\* an assignment set directly, as the tests do, naming an absent provider
InjectedAssignment ==
    [philosopher |-> <<"gemini", "claude", "openai", "demo">>]

InitSel ==
    /\ active_conversations = EmptyDict
    /\ redis = EmptyDict
    /\ ret = NoCall
    /\ stopped = {}
    /\ nupdates = EmptyDict
    /\ pending = {}
    /\ loops = EmptyDict
    /\ after_stop = EmptyDict
    /\ oret = NoCall
    /\ active_connections = EmptyDict
    /\ bc = BcIdle
    /\ sw = SwIdle
    /\ ep = EpIdle
    /\ hb = HbIdle
    /\ heard = [ws \in Sockets |-> 0]
    /\ ta = TaIdle
    /\ keys = {}
    /\ now = 0
    /\ providers \in {ProviderMap(S) : S \in (SUBSET ProviderNames) \ {{}}}
    /\ provider_persona_assignment
           \in {InitializeAssignment(providers), InjectedAssignment}
    /\ health = [n \in ProviderNames |-> TRUE]
    /\ model = DefaultModels
    /\ sel = SelIdle
    /\ selg = SelgIdle
    /\ rl = RlIdle
    /\ cache = CacheIdle
    /\ cret = NoCacheCall

select_provider_for_persona(persona, manual) ==
    /\ sel.pc \in {"idle", "done"}
    /\ sel' = SelBegin(persona, manual, provider_persona_assignment, providers)
    /\ selg' = [stable |-> TRUE,
                always |-> {n \in Range(providers) : health[n]},
                log |-> <<>>, before |-> sel.result]
    /\ rl' = [rl EXCEPT !.seen = {rl.gen}]
    /\ UNCHANGED <<tmVars, orchVars, cacheVars, fnVars, hubVars, providers,
                   provider_persona_assignment, health, model>>

\* does the code between the health check of s and the next await (or the
\* return) of t read self.providers or self.provider_persona_assignment:
\* line 422 after the manual check, line 424 or 431 after a preferred one,
\* line 438 when the items() being iterated are exhausted
ReadsRegistry(s, t) ==
    /\ t.result = None
    /\ \/ s.pc \in {"manual", "pref"}
       \/ s.pc = "any" /\ t.pc # "any"

health_check_returns ==
    /\ sel.pc \in {"manual", "pref", "any", "demo"}
    /\ sel' = SelStep(sel, health, provider_persona_assignment, providers)
    /\ rl' = IF ReadsRegistry(sel, sel') THEN [rl EXCEPT !.seen = @ \cup {rl.gen}]
             ELSE rl
    /\ selg' = [selg EXCEPT !.log = Append(@, sel.target)]
    /\ UNCHANGED <<tmVars, orchVars, cacheVars, fnVars, hubVars, providers,
                   provider_persona_assignment, health, model>>

\* a provider backend goes down or comes back
HealthChange(n) ==
    /\ health' = [health EXCEPT ![n] = ~@]
    /\ selg' = IF sel.pc # "idle"
               THEN [selg EXCEPT !.stable = FALSE, !.always = @ \ {n}]
               ELSE selg
    /\ UNCHANGED <<tmVars, orchVars, cacheVars, fnVars, hubVars, providers,
                   provider_persona_assignment, model, sel, rl>>

NextSel ==
    \/ \E p \in SelPersonas, m \in ManualChoices : select_provider_for_persona(p, m)
    \/ health_check_returns
    \/ \E n \in ProviderNames : HealthChange(n)

SpecSel == InitSel /\ [][NextSel]_vars

----------------------------------------------------------------------------
(* SpecPin: _generate_response for personas with and without a manual model,
   one call at a time, on the providers openai and demo, whose health
   answers change between the calls and stay as they are during one *)

\* get_persona_provider_config of the personas: the philosopher is pinned
\* to a model of openai, the scientist to openai without a model, the
\* comedian is left to auto-selection
PersonaProviderConfig ==
    [philosopher |-> [provider |-> "openai", model |-> "gpt-4"],
     scientist   |-> [provider |-> "openai", model |-> None],
     comedian    |-> [provider |-> "auto",   model |-> None]]

\* lines 401-414: the manually configured provider is registered and
\* healthy, and the configuration names a model
PinApplies(cfg, h, provs) ==
    /\ cfg.provider \notin {None, "auto"}
    /\ cfg.provider \in Range(provs)
    /\ h[cfg.provider]
    /\ cfg.model \notin {None, ""}

\* _generate_response up to provider.chat: the provider is selected, the
\* selection sets provider.model when the pin applies, and chat sends
\* self.model of the instance it was handed (used)
generate_with_provider(persona) ==
    /\ sel.pc = "idle"
    /\ LET cfg == PersonaProviderConfig[persona]
           s == SelectRun(SelBegin(persona, cfg.provider,
                                   provider_persona_assignment, providers),
                          health, provider_persona_assignment, providers)
       IN  /\ model' = IF PinApplies(cfg, health, providers)
                       THEN [model EXCEPT ![cfg.provider] = cfg.model]
                       ELSE model
           /\ oret' = [op |-> "generate_with_provider", cid |-> None, arg |-> persona,
                       val |-> s.result, raised |-> FALSE,
                       used |-> IF s.result = None THEN None
                                ELSE model'[s.result]]
    /\ UNCHANGED <<tmVars, loops, after_stop, cacheVars, fnVars, hubVars,
                   providers, provider_persona_assignment, health, sel, selg, rl>>

NextPin ==
    \/ \E persona \in DOMAIN PersonaProviderConfig : generate_with_provider(persona)
    \/ \E n \in ProviderNames : HealthChange(n)

SpecPin == Init /\ [][NextPin]_vars

\* C40: a manual model pin is scoped to the persona that configured it: a
\* generation for a persona without a model override runs on the model its
\* provider was constructed with, whatever selections with an override were
\* made on the same provider instance before.
C40_PinScopedToPersona ==
    (oret.op = "generate_with_provider" /\ oret.val # None
        /\ PersonaProviderConfig[oret.arg].model = None) =>
        oret.used = DefaultModel

----------------------------------------------------------------------------
(* SpecReload: selection calls with reload_providers running between their
   health checks *)

\* reload_providers: _initialize_providers builds the map of the configured
\* providers S plus demo and the assignment, then self.providers is rebound
reload_providers(S) ==
    /\ rl.gen < MaxReloads
    /\ providers' = ProviderMap(S \cup {"demo"})
    /\ provider_persona_assignment' = InitializeAssignment(providers')
    /\ rl' = [rl EXCEPT !.gen = @ + 1]
    /\ selg' = IF sel.pc \in {"idle", "done"} THEN selg
               ELSE [selg EXCEPT !.stable = FALSE]
    /\ model' = DefaultModels
    /\ UNCHANGED <<tmVars, orchVars, cacheVars, fnVars, hubVars, health, sel>>

\* the registry __init__ builds from settings with one API key
InitReload ==
    /\ InitSel
    /\ providers = ProviderMap({"openai", "demo"})
    /\ provider_persona_assignment = InitializeAssignment(providers)

\* the keys the reloaded settings can hold
ReloadedSets == {{}, {"claude"}, {"openai", "claude"}}

NextReload ==
    \/ \E m \in {"auto", "claude"} : select_provider_for_persona("philosopher", m)
    \/ health_check_returns
    \/ \E n \in ProviderNames : HealthChange(n)
    \/ \E S \in ReloadedSets : reload_providers(S)

SpecReload == InitReload /\ [][NextReload]_vars

\* C12: a selection call makes all its reads of the provider registry
\* against one registry, the one before or the one after a reload.
C12_SelectionSeesOneRegistry == Cardinality(rl.seen) <= 1

\* the provider the contract names for auto-selection under answers h
ContractAuto(prefs, provs, h) ==
    LET ok(n) == n \in Range(provs) /\ n # "demo" /\ h[n]
        i == FirstFrom(prefs, 1, ok)
        j == FirstFrom(provs, 1, ok)
    IN  IF i # 0 THEN prefs[i]
        ELSE IF j # 0 THEN provs[j]
        ELSE IF "demo" \in Range(provs) /\ h["demo"] THEN "demo"
        ELSE None

\* C6: without a manual override the call returns the first preferred
\* provider that is registered, not demo and healthy; failing that the first
\* healthy non-demo registered provider; failing that demo when healthy
\* (health answers not changing during the call).
C6_AutoSelectionOrder ==
    (sel.pc = "done" /\ sel.manual \in {"auto", None} /\ selg.stable) =>
        sel.result = ContractAuto(PrefList(sel.persona, provider_persona_assignment,
                                           providers),
                                  providers, health)

\* preference [openai, claude, ...]: openai failed its check, claude returned
C6_Witness ==
    /\ sel.pc = "done" /\ sel.manual = "auto" /\ selg.stable
    /\ sel.prefs = <<"openai", "claude", "demo">>
    /\ sel.checked = {"openai"}
    /\ sel.result = "claude"

\* C17: with a manual provider M other than "auto", the call returns M when
\* M is registered and healthy, whatever the preference order; when M is
\* not registered or fails its check it returns what auto-selection
\* returns (health answers not changing during the call).
C17_ManualThenAuto ==
    (sel.pc = "done" /\ sel.manual \notin {"auto", None} /\ selg.stable) =>
        sel.result =
            IF sel.manual \in Range(providers) /\ health[sel.manual]
            THEN sel.manual
            ELSE ContractAuto(PrefList(sel.persona, provider_persona_assignment,
                                       providers),
                              providers, health)

\* the manual provider claude failed its check and the call went on to
\* return another provider
C17_Witness ==
    /\ sel.pc = "done" /\ sel.manual = "claude" /\ selg.stable
    /\ "claude" \in Range(providers) /\ "claude" \in sel.checked
    /\ sel.result \notin {None, "claude"}

\* C18: health is not carried over from one call to the next: a provider
\* the call returns has just passed the health check this call made on it,
\* whatever the call before returned. When the returned provider comes
\* from the preference list, the checks the call made are, in order and
\* once each, the registered non-demo entries of the list up to the
\* returned one (after the one check of a registered manual provider that
\* failed), and nothing after it was checked.
C18_ChecksAreFreshAndOrdered ==
    [][ (sel.pc \in {"manual", "pref", "any", "demo"} /\ sel'.pc = "done"
          /\ sel'.result # None) =>
          /\ sel'.result = sel.target
          /\ health[sel.target]
          /\ selg'.log = Append(selg.log, sel.target)
          /\ sel.pc = "pref" =>
                selg'.log =
                    (IF sel.manual \notin {"auto", None}
                          /\ sel.manual \in Range(providers)
                     THEN <<sel.manual>> ELSE <<>>)
                    \o SelectSeq(SubSeq(sel.prefs, 1, sel.idx),
                                 LAMBDA n : n # "demo" /\ n \in Range(providers)) ]_vars

\* the call before returned openai; this call checked openai, which failed
\* now, then claude, and returned claude
C18_Witness ==
    /\ sel.pc = "done" /\ sel.manual = "auto"
    /\ selg.before = "openai"
    /\ selg.log = <<"openai", "claude">>
    /\ sel.result = "claude"

\* C7: the call returns None only after every registered provider, demo
\* included, failed a health check made during the call; a provider it
\* returns passed one; and it does not return None while some registered
\* provider stayed healthy throughout the call.
C7_NoneIffNoneHealthy ==
    [][ (sel.pc \in {"manual", "pref", "any", "demo"} /\ sel'.pc = "done") =>
          /\ sel'.result = None => Range(providers) \subseteq sel'.checked
          /\ sel'.result # None =>
                /\ sel'.result \in Range(providers)
                /\ health[sel'.result]
          /\ selg.always # {} => sel'.result # None ]_vars

\* every provider of a three-provider map was checked and None returned
C7_Witness ==
    /\ sel.pc = "done" /\ sel.result = None
    /\ Len(providers) = 3
    /\ sel.checked = Range(providers)

----------------------------------------------------------------------------
(* SpecHub: connections come and go around one broadcast at a time *)

InitHub ==
    /\ active_conversations = EmptyDict
    /\ redis = EmptyDict
    /\ ret = NoCall
    /\ stopped = {}
    /\ nupdates = EmptyDict
    /\ pending = {}
    /\ loops = EmptyDict
    /\ after_stop = EmptyDict
    /\ oret = NoCall
    /\ providers = <<>>
    /\ provider_persona_assignment = EmptyDict
    /\ health = EmptyDict
    /\ model = DefaultModels
    /\ sel = SelIdle
    /\ selg = SelgIdle
    /\ rl = RlIdle
    /\ cache = CacheIdle
    /\ cret = NoCacheCall
    /\ active_connections = EmptyDict
    /\ bc = BcIdle
    /\ sw = SwIdle
    /\ ep = EpIdle
    /\ hb = HbIdle
    /\ heard = [ws \in Sockets |-> 0]
    /\ ta = TaIdle
    /\ keys = {}
    /\ now = 0

NextHub ==
    \/ \E ws \in Sockets, room \in ConvIds : connect(ws, room)
    \/ \E ws \in Sockets, room \in ConvIds : disconnect(ws, room)
    \/ \E room \in ConvIds : broadcast_to_conversation(room)
    \/ \E ws \in Sockets, ok \in BOOLEAN : send_text_returns(ws, ok)
    \/ publish_returns
    \/ Tick

SpecHub == InitHub /\ [][NextHub]_vars

----------------------------------------------------------------------------
(* SpecSweep: the registry under connect, disconnect, heartbeats, broadcasts
   and the heartbeat sweep, on two sockets *)

SweepSockets == {1, 2}

NextSweep ==
    \/ \E ws \in SweepSockets, room \in ConvIds : connect(ws, room)
    \/ \E ws \in SweepSockets, room \in ConvIds : disconnect(ws, room)
    \/ \E ws \in SweepSockets, room \in ConvIds : receive_text_returns(ws, room)
    \/ \E room \in ConvIds : broadcast_to_conversation(room)
    \/ \E ws \in SweepSockets, ok \in BOOLEAN : send_text_returns(ws, ok)
    \/ publish_returns
    \/ remove_stale_connections
    \/ \E x \in ConvIds \X SweepSockets, ok \in BOOLEAN : sweep_send_error_returns(x, ok)
    \/ \E ok \in BOOLEAN : sweep_close_returns(ok)
    \/ \E ws \in SweepSockets, ok \in BOOLEAN : sweep_status_send_returns(ws, ok)
    \/ sweep_status_returns
    \/ Tick

SpecSweep == InitHub /\ [][NextSweep]_vars

----------------------------------------------------------------------------
(* SpecEvict: one room and two sockets under connect, inbound frames,
   broadcasts and the heartbeat sweep, while time passes without end; every
   await of the sweep returns and the sweep wakes up again after each run *)

EvictRoom == "c1"

\* a step of _heartbeat_loop: the sleep is over, or an await of
\* remove_stale_connections returns
SweepStep ==
    \/ remove_stale_connections
    \/ \E x \in {EvictRoom} \X SweepSockets, ok \in BOOLEAN :
           sweep_send_error_returns(x, ok)
    \/ \E ok \in BOOLEAN : sweep_close_returns(ok)
    \/ \E ws \in SweepSockets, ok \in BOOLEAN : sweep_status_send_returns(ws, ok)
    \/ sweep_status_returns

TimePasses == Tick \/ TickOn

NextEvict ==
    \/ \E ws \in SweepSockets : connect(ws, EvictRoom)
    \/ \E ws \in SweepSockets : receive_text_returns(ws, EvictRoom)
    \/ broadcast_to_conversation(EvictRoom)
    \/ \E ws \in SweepSockets, ok \in BOOLEAN : send_text_returns(ws, ok)
    \/ publish_returns
    \/ SweepStep
    \/ TimePasses

\* where the sweep stands: every step of it that does anything changes this
SweepPos == <<sw.pc, sw.stale, sw.st.todo>>

\* the clock and the recorded times
Times == <<now, active_connections, heard>>

\* the sweep wakes up again and again, so that connections that are stale
\* again and again are collected by a run of it; and time passes
SpecEvict ==
    /\ InitHub /\ [][NextEvict]_vars
    /\ SF_SweepPos(SweepStep)
    /\ WF_Times(TimePasses)

\* the socket is registered and its last inbound frame is older than
\* connection_timeout
Silent(ws) ==
    /\ ws \in Members(EvictRoom)
    /\ now - heard[ws] > connection_timeout

\* C28: while the heartbeat task runs, a registered connection whose last
\* inbound frame is older than connection_timeout is eventually evicted
\* (unless a frame of it arrives after all), also when the server keeps
\* broadcasting to its room.
C28_SilentIsEvicted ==
    \A ws \in SweepSockets :
        Silent(ws) ~> (ws \notin Members(EvictRoom) \/ ~Silent(ws)
                          \/ hb.task # "running")

----------------------------------------------------------------------------
(* SpecInit: the orchestrator is constructed and reloaded on settings with
   any set of API keys *)

\* the providers without API key whose constructor can raise
LocalProviders == {"lm_studio", "ollama"}

\* ConversationOrchestrator.__init__: self.providers = _initialize_providers()
orchestrator_init(k, failed) ==
    /\ providers = <<>>
    /\ keys' = k
    /\ providers' = initialize_providers(k, failed)
    /\ provider_persona_assignment' = InitializeAssignment(providers')
    /\ model' = DefaultModels
    /\ UNCHANGED <<tmVars, orchVars, cacheVars, hubVars, ta, health, sel, selg, rl>>

\* reload_providers on fresh settings
reload_providers_from(k, failed) ==
    /\ providers # <<>>
    /\ rl.gen < MaxReloads
    /\ keys' = k
    /\ providers' = initialize_providers(k, failed)
    /\ provider_persona_assignment' = InitializeAssignment(providers')
    /\ rl' = [rl EXCEPT !.gen = @ + 1]
    /\ model' = DefaultModels
    /\ UNCHANGED <<tmVars, orchVars, cacheVars, hubVars, ta, health, sel, selg>>

NextInit ==
    \/ \E k \in SUBSET RequiresApiKey, failed \in SUBSET LocalProviders :
           orchestrator_init(k, failed)
    \/ \E k \in SUBSET RequiresApiKey, failed \in SUBSET LocalProviders :
           reload_providers_from(k, failed)

SpecInit == InitHub /\ [][NextInit]_vars

\* C27: after the initialization and after every reload the provider map is
\* non-empty and holds demo, holds no provider whose required API key is
\* missing, and the preference list of each built-in persona is non-empty,
\* names only providers of the map and ends with demo.
C27_DemoAlwaysRegistered ==
    (providers # <<>> \/ rl.gen > 0) =>
        /\ "demo" \in Range(providers)
        /\ \A n \in RequiresApiKey \ keys : n \notin Range(providers)
        /\ \A persona \in {"philosopher", "comedian", "scientist"} :
              /\ persona \in DOMAIN provider_persona_assignment
              /\ LET l == provider_persona_assignment[persona]
                 IN  /\ l # <<>>
                     /\ Range(l) \subseteq Range(providers)
                     /\ l[Len(l)] = "demo"

\* a reload on settings without any API key, the local providers failing:
\* demo is the one provider and the whole preference list of each persona
C27_Witness ==
    /\ rl.gen = 1 /\ keys = {}
    /\ providers = <<"demo">>
    /\ provider_persona_assignment["comedian"] = <<"demo">>

----------------------------------------------------------------------------
(* SpecTopic: suggest_topic_shift on scores around the threshold and turn
   counts around the window *)

\* scores in hundredths
ScoreValues == {0, 60, 61}

TurnCounts == 0 .. MaxTurn

TopicParticipants ==
    {<<>>, <<"philosopher", "comedian">>, <<"scientist", "poet">>,
     <<"philosopher", "scientist", "comedian">>}

\* suggest_topic_shift is called
suggest_topic_shift_called(sc, ps, tc) ==
    /\ ta = TaIdle
    /\ ta' = [scores |-> sc, participants |-> ps, turn_count |-> tc,
              result |-> "pending"]
    /\ UNCHANGED <<tmVars, orchVars, selVars, hubVars, cacheVars, keys>>

\* the call returns
suggest_topic_shift_returns ==
    /\ ta # TaIdle /\ ta.result = "pending"
    /\ ta' = [ta EXCEPT !.result = suggest_topic_shift(ta.scores, ta.participants,
                                                        ta.turn_count)]
    /\ UNCHANGED <<tmVars, orchVars, selVars, hubVars, cacheVars, keys>>

NextTopic ==
    \/ /\ ta = TaIdle
       /\ \E sc \in [Topics -> ScoreValues], ps \in TopicParticipants,
             tc \in TurnCounts : suggest_topic_shift_called(sc, ps, tc)
    \/ suggest_topic_shift_returns

SpecTopic == InitHub /\ [][NextTopic]_vars

\* C25: suggest_topic_shift returns None whenever turn_count < 6 or
\* turn_count > 15, whatever the scores; for 6 <= turn_count <= 15 it returns
\* one of the six topics when the largest score is above 0.6 and None when
\* the largest score is 0.6 or below.
C25_ShiftOnlyInWindowAboveThreshold ==
    (ta # TaIdle /\ ta.result # "pending") =>
        IF ta.turn_count < 6 \/ ta.turn_count > 15
        THEN ta.result = None
        ELSE IF \E t \in Topics : ta.scores[t] > 60
             THEN ta.result \in Topics
             ELSE ta.result = None

\* turn 15, humor alone above 0.6 with a comedian taking part: a topic is
\* suggested
C25_Witness ==
    /\ ta # TaIdle /\ ta.turn_count = 15
    /\ ta.scores["humor"] = 61
    /\ \A t \in Topics \ {"humor"} : ta.scores[t] <= 60
    /\ "comedian" \in Range(ta.participants)
    /\ ta.result \in Topics

\* C39: whenever suggest_topic_shift returns a topic, for any participant
\* set, that topic differs from the dominant (top-scoring) topic of the
\* scores it was given.
C39_SuggestionDiffersFromDominant ==
    (ta # TaIdle /\ ta.result \in Topics) => ta.result # DominantTopic(ta.scores)

----------------------------------------------------------------------------
(* SpecRoute: one conversation of a philosopher and a comedian whose loop
   runs the full range of the source, generations failing or not, with the
   topic routing check at the end of every iteration that was not skipped.
   No client is connected, so the broadcast of a routing message returns
   without sending. *)

\* range(20) of _conversation_loop
LoopRange == 20

\* what analyze_conversation_topics makes of the recent messages: no topic
\* stands out, or technology dominates
RouteScores ==
    { [x \in Topics |-> 0],
      [x \in Topics |-> IF x = "technology" THEN 61 ELSE 0] }

\* _check_topic_routing(conversation_id, turn + 1) and the pause after it.
\* recent: the database returned messages of the conversation; without
\* them the check returns before it asks the TopicAnalyzer. ta keeps the
\* suggest_topic_shift call of this check; a returned topic is followed by
\* the routing message being saved and broadcast.
check_topic_routing(t, recent, scores) ==
    /\ Running(t) /\ loops[t].pc = "pause"
    /\ LET c == loops[t].cid
           participants == IF HasState(c) THEN GetState(c).participants ELSE <<>>
           turn_count == loops[t].turn + 1
       IN  IF recent
           THEN /\ active_conversations' = CacheAfterGet(c)
                /\ ta' = [scores |-> scores, participants |-> participants,
                          turn_count |-> turn_count,
                          result |-> suggest_topic_shift(scores, participants,
                                                         turn_count)]
           ELSE /\ ta' = TaIdle
                /\ UNCHANGED active_conversations
    /\ loops' = [loops EXCEPT ![t] = NextIteration(@)]
    /\ UNCHANGED <<redis, ret, stopped, nupdates, pending, after_stop, oret,
                   selVars, hubVars, cacheVars, keys>>

NextRoute ==
    \/ /\ loops = EmptyDict
       /\ orch_start_conversation("c1", DurParticipants, None, TRUE)
    \/ \E t \in Range(TaskIds) : LoopTopUpTo(t, LoopRange)
    \/ \E t \in Range(TaskIds) : GenerationReturns(t)
    \/ \E t \in Range(TaskIds) : LoopGot(t)
    \/ \E t \in Range(TaskIds) : LoopUpdate(t)
    \/ \E t \in Range(TaskIds), recent \in BOOLEAN, scores \in RouteScores :
           check_topic_routing(t, recent, scores)

SpecRoute == Init /\ [][NextRoute]_vars

\* C38: a topic-routing system message is injected only right after a turn
\* at which the scheduler's turn count (current_turn) of the conversation
\* lies between 6 and 15 inclusive, also when earlier iterations of the loop
\* were skipped.
C38_RoutingOnlyInSchedulerWindow ==
    [][ \A t \in DOMAIN loops :
          (loops[t].pc = "pause" /\ loops'[t].pc # "pause" /\ ta'.result \in Topics) =>
              /\ HasState(loops[t].cid)
              /\ GetState(loops[t].cid).current_turn \in 6 .. 15 ]_vars

----------------------------------------------------------------------------
(* SpecEndpoint: websocket_endpoint handling one connection or frame at a
   time while connections come and go and broadcasts run, the clock standing
   still *)

NextEndpoint ==
    \/ \E ws \in SweepSockets, room \in ConvIds : connect(ws, room)
    \/ \E ws \in SweepSockets, room \in ConvIds, ok \in BOOLEAN :
           endpoint_connects(ws, room, ok)
    \/ \E ok \in BOOLEAN : endpoint_hello_returns(ok)
    \/ \E room \in ConvIds : broadcast_to_conversation(room)
    \/ \E ws \in SweepSockets, ok \in BOOLEAN : send_text_returns(ws, ok)
    \/ publish_returns
    \/ \E ws \in SweepSockets \ EpHeld, room \in ConvIds : disconnect(ws, room)
    \/ \E ws \in SweepSockets, room \in ConvIds,
          frame \in Frames \cup DisconnectFrames :
           endpoint_receives(ws, room, frame)
    \/ \E ok \in BOOLEAN : endpoint_send_returns(ok)
    \/ \E ok \in BOOLEAN : endpoint_dclose_returns(ok)
    \/ \E kind \in {"WebSocketDisconnect", "RuntimeError"} :
           endpoint_receive_raises(kind)
    \/ \E ws \in SweepSockets, ok \in BOOLEAN : endpoint_status_send_returns(ws, ok)
    \/ endpoint_status_returns
    \/ endpoint_close_returns

SpecEndpoint == InitHub /\ [][NextEndpoint]_vars

\* the frames the endpoint cannot interpret
MalformedFrames == {"not_json", "not_object", "unknown_type"}

\* C19: a frame that is not valid JSON, is valid JSON but not an object, or
\* is an object of unrecognized type is answered with an error frame of code
\* invalid_json or unknown_message, after which the endpoint is back in its
\* receive loop with the connection open and, if it was registered in its
\* room, still registered.
C19_MalformedFrameKeepsConnection ==
    [][ (ep.pc = "send" /\ ep.frame \in MalformedFrames /\ ep' # ep) =>
          /\ ep.code \in {"invalid_json", "unknown_message"}
          /\ ep'.pc = "done" /\ ep'.open
          /\ ep.ws \in Members(ep.room) =>
                /\ ep.room \in DOMAIN active_connections'
                /\ ep.ws \in DOMAIN active_connections'[ep.room] ]_vars

\* C23 as stated: the first frame the endpoint sends a new client is the
\* connection confirmation and the next one is a status frame, sent to it
\* with a client count of at least 1.
C23_StatusFollowsConfirmation ==
    [][ (ep.pc = "hello" /\ ep' # ep) =>
          /\ ep'.trace = <<"connection", "status">>
          /\ ep.ws \in ep'.st.todo
          /\ ep'.count >= 1 ]_vars

\* C23: the first frame the endpoint sends a new client is the connection
\* confirmation. When the send of the confirmation has returned and the
\* client is still registered in its room, the next frame is a status frame
\* sent to it, whose client count is the size of the room, the client
\* included; a client that a failed broadcast has removed meanwhile gets no
\* status frame, and the status counts the room without it. The same holds
\* when the client reconnects to the conversation it left.
C23_StatusFollowsConfirmationIfRegistered ==
    [][ (ep.pc = "hello" /\ ep' # ep) =>
          /\ SubSeq(ep'.trace, 1, 1) = <<"connection">>
          /\ IF ep.ws \in Members(ep.room)
             THEN /\ ep'.trace = <<"connection", "status">>
                  /\ ep.ws \in ep'.st.todo
                  /\ ep'.count = Cardinality(Members(ep.room))
                  /\ ep'.count >= 1
             ELSE /\ ep.ws \notin ep'.st.todo
                  /\ ep'.count = Cardinality(Members(ep.room)) ]_vars

\* a client that left its conversation by a disconnect request connects to
\* it again, joins another client there, and has been sent the confirmation
\* and then the status with count 2
C23_Witness ==
    /\ ep.re /\ ep.code = "connection" /\ ep.sent
    /\ ep.pc = "done"
    /\ ep.trace = <<"connection", "status">>
    /\ ep.count = 2
    /\ ep.ws \in ep.st.received

\* C22: on a disconnect request the endpoint first sends the requester a
\* disconnect frame with the reason of the request (client_requested when
\* the request gives none), then closes the connection, then removes it
\* from its room and starts a status broadcast to exactly the clients that
\* remain in the room, with their number as the client count. When the
\* close raises, the removal and the status broadcast still follow, on the
\* error path of the endpoint.
C22_DisconnectRequestOrder ==
    [][ /\ (ep.pc = "send" /\ ep.code = "disconnect" /\ ep' # ep) =>
              /\ ep'.pc = "dclose" /\ ep'.trace = <<"disconnect">>
              /\ ep.reason = IF ep.frame = "disconnect" THEN "client_requested"
                              ELSE "bye"
              /\ active_connections' = active_connections
        /\ (ep.frame \in DisconnectFrames /\ ep' # ep
               /\ (\/ ep.pc = "dclose" /\ ~ep'.open
                   \/ ep.pc = "send" /\ ep.code = "internal_error")) =>
              /\ ep.pc = "dclose" =>
                    ep'.trace \in {<<"disconnect", "close", "removed">>,
                                   <<"disconnect", "close", "removed", "status">>}
              /\ \A r \in DOMAIN active_connections' :
                    ep.ws \notin DOMAIN active_connections'[r]
              /\ IF Members(ep.room) \ {ep.ws} = {}
                 THEN /\ ep.room \notin DOMAIN active_connections'
                      /\ ep'.pc # "status"
                 ELSE /\ ep'.pc = "status"
                      /\ ep'.st.todo = Members(ep.room) \ {ep.ws}
                      /\ ep'.count = Cardinality(Members(ep.room) \ {ep.ws}) ]_vars

\* a request with the reason "bye" from one of two clients of a room: the
\* frame went out, the connection is closed and removed, and the status
\* with count 1 reached the client that remains
C22_Witness ==
    /\ ep.frame = "disconnect_bye" /\ ep.reason = "bye" /\ ep.sent
    /\ ep.pc = "recv" /\ ~ep.open
    /\ ep.trace = <<"disconnect", "close", "removed", "status">>
    /\ ep.count = 1
    /\ ep.st.received = Members(ep.room)
    /\ ep.ws \notin Members(ep.room)

\* C10: a broadcast makes exactly one send attempt to each connection that
\* was registered in the room when it started and none to any other; when
\* its sends are over every connection whose send did not raise has received
\* the message, and the clean-up removes the failing connections and no
\* other from the room.
C10_BroadcastIsolatesFailures ==
    [][ (bc.pc = "send" /\ bc'.pc = "publish") =>
          /\ \A ws \in Sockets :
                bc'.attempts[ws] = IF ws \in bc'.snapshot THEN 1 ELSE 0
          /\ bc'.received = bc'.snapshot \ bc'.failed
          /\ IF bc.room \in DOMAIN active_connections'
             THEN DOMAIN active_connections'[bc.room] = Members(bc.room) \ bc'.failed
             ELSE Members(bc.room) \subseteq bc'.failed ]_vars

\* two connections in the room, one send raised: the other received the
\* message and is the one connection the room retains
C10_Witness ==
    /\ bc.pc = "publish"
    /\ Cardinality(bc.snapshot) = 2
    /\ Cardinality(bc.failed) = 1
    /\ Cardinality(bc.received) = 1
    /\ Members(bc.room) = bc.received

\* C33: a broadcast_to_conversation call that has returned published its
\* message once, after all its sends, also for a room without a local
\* connection and when sends failed.
C33_BroadcastPublishesOnce ==
    bc.pc = "done" => (bc.published = 1 /\ bc.todo = {})

----------------------------------------------------------------------------
(* SpecCache: ResponseCache calls, one after the other, Redis failing at will *)

User(content) == ChatMessage("user", content)

\* inputs [provider, messages, params] of the cache calls
Input(p, ms, ps) == [provider |-> p, messages |-> ms, params |-> ps]

BaseInput == Input("openai", <<User(HiPadded), User(Yo)>>, Params(7, 150))
PaddedPair == Input("openai", <<User(HiPadded), User(Hi)>>, Params(7, 150))

\* the inputs responses are stored under
StoredInputs == {BaseInput, PaddedPair}

\* the inputs looked up: the stored ones and inputs that differ from them in
\* padding and defaulted parameters, in message order, provider, temperature
\* and max_tokens
CacheInputs ==
    StoredInputs \cup
    { Input("openai", <<User(Hi), User(Yo)>>, NoParams),
      Input("openai", <<User(Yo), User(HiPadded)>>, Params(7, 150)),
      Input("openai", <<User(Hi), User(HiPadded)>>, Params(7, 150)),
      Input("claude", <<User(HiPadded), User(Yo)>>, Params(7, 150)),
      Input("openai", <<User(HiPadded), User(Yo)>>, Params(9, 150)),
      Input("openai", <<User(HiPadded), User(Yo)>>, Params(7, 200)) }

\* the inputs of the turns that generate a response
TurnInputs == {BaseInput}

Responses == {"R1", "R2"}

\* what provider.chat adds up to after strip(): raised, empty, or a text
ChatTexts == {None, "", "R2"}

KeyOf(x) == generate_cache_key(x.provider, x.messages, x.params)

\* the response the fallback store holds for an input, None if none
HeldInFallback(c, x) ==
    IF KeyOf(x) \in DOMAIN c.fallback
    THEN JsonLoads(c.fallback[KeyOf(x)]).response ELSE None

InitCache == InitHub

cache_response(x, response, up) ==
    /\ LET w == CacheResponse(cache, x, response, up)
       IN  /\ cache' = w.c
           /\ cret' = [NoCacheCall EXCEPT
                         !.op = "cache_response", !.inp = x, !.arg = response,
                         !.place = w.place, !.failed = w.failed,
                         !.held = HeldInFallback(cache, x),
                         !.stored = cret.stored \cup {<<x, response>>}]
    /\ UNCHANGED <<tmVars, orchVars, selVars, hubVars, fnVars>>

get_cached_response(x, up) ==
    /\ LET g == GetCachedResponse(cache, x, up)
       IN  /\ cache' = g.c
           /\ cret' = [NoCacheCall EXCEPT
                         !.op = "get_cached_response", !.inp = x, !.val = g.val,
                         !.place = g.place, !.failed = g.failed,
                         !.cached = g.val,
                         !.held = HeldInFallback(cache, x),
                         !.stored = cret.stored]
    /\ UNCHANGED <<tmVars, orchVars, selVars, hubVars, fnVars>>

\* _generate_response from its cache lookup to its return
generate_response(x, upr, upw, chat) ==
    /\ LET r == GenerateFrom(cache, x, upr, upw, chat)
       IN  /\ cache' = r.c
           /\ cret' = [NoCacheCall EXCEPT
                         !.op = "generate_response", !.inp = x, !.arg = chat,
                         !.val = r.val, !.place = r.rd.place,
                         !.failed = r.rd.failed,
                         !.wfailed = r.wfailed,
                         !.cached = r.rd.val,
                         !.held = HeldInFallback(cache, x),
                         !.stored = cret.stored \cup
                             (IF r.wrote THEN {<<x, chat>>} ELSE {})]
    /\ UNCHANGED <<tmVars, orchVars, selVars, hubVars, fnVars>>

NextCache ==
    \/ \E x \in StoredInputs, response \in Responses, up \in BOOLEAN :
          cache_response(x, response, up)
    \/ \E x \in CacheInputs, up \in BOOLEAN : get_cached_response(x, up)
    \/ \E x \in TurnInputs, upr, upw \in BOOLEAN, chat \in ChatTexts :
          generate_response(x, upr, upw, chat)

SpecCache == InitCache /\ [][NextCache]_vars

----------------------------------------------------------------------------
(* Claims on the response cache, checked under SpecCache *)

\* b holds the messages of a in another order
Reordered(a, b) ==
    /\ Len(a) = Len(b) /\ a # b
    /\ \E f \in Permutations(1 .. Len(a)) : b = [i \in 1 .. Len(a) |-> a[f[i]]]

\* the lookup input y differs from the stored input x in temperature,
\* max_tokens, provider name or message order
DiffersAsStated(x, y) ==
    \/ x.provider # y.provider
    \/ Opt(x.params, "temperature") # Opt(y.params, "temperature")
    \/ Opt(x.params, "max_tokens") # Opt(y.params, "max_tokens")
    \/ Reordered(x.messages, y.messages)

\* two inputs agree in what the cache is keyed by: provider name, the roles
\* and stripped contents in order, temperature (0.7 when absent) and
\* max_tokens (150 when absent)
SameKeyParts(x, y) ==
    /\ x.provider = y.provider
    /\ Len(x.messages) = Len(y.messages)
    /\ \A i \in 1 .. Len(x.messages) :
          /\ x.messages[i].role = y.messages[i].role
          /\ Strip(x.messages[i].content) = Strip(y.messages[i].content)
    /\ DictGet(x.params, "temperature", 7) = DictGet(y.params, "temperature", 7)
    /\ DictGet(x.params, "max_tokens", 150) = DictGet(y.params, "max_tokens", 150)

----------------------------------------------------------------------------
(* Claims on the heartbeat sweep and the registry, checked under SpecSweep *)

\* C11: a connection collected as stale by remove_stale_connections is sent
\* the heartbeat_timeout frame, then closed, then removed from its room, and
\* the client count reported afterwards is one lower (no room entry is left
\* when it was the last connection).
C11_StaleIsEvicted ==
    [][ (sw.pc = "close" /\ sw' # sw) =>
          LET room == sw.cur[1]  ws == sw.cur[2]
          IN  /\ sw'.closed
              /\ room \in DOMAIN active_connections' =>
                     ws \notin DOMAIN active_connections'[room]
              /\ sw'.count = Cardinality(Members(room) \ {ws})
              /\ sw'.count = 0 => room \notin DOMAIN active_connections' ]_vars

\* C24: at most one heartbeat task is not done at any time, whatever the
\* connections and conversations, and a heartbeat task is created only when
\* none was created before or the last one created is done.
C24_OneHeartbeatTask ==
    /\ [](hb.live <= 1)
    /\ [][hb'.live > hb.live => hb.task \in {"none", "done"}]_vars

\* the sweep of the first task raised and ended it; a later connect created
\* the one task that runs now, with two connections registered
C24_Witness ==
    /\ hb.again /\ hb.task = "running" /\ hb.live = 1
    /\ Cardinality(UNION {Members(r) : r \in ConvIds}) = 2

\* C20: whatever connect, disconnect, heartbeat, broadcast and sweep steps
\* have run, every conversation ID present in active_connections has at
\* least one registered connection: the disconnect of the last connection
\* of a room deletes the room entry.
C20_NoEmptyRoom ==
    \A room \in DOMAIN active_connections :
        DOMAIN active_connections[room] # {}

\* the sweep closed and disconnected the last connection of a room, whose
\* entry is gone, while the other room still holds a connection
C20_Witness ==
    /\ sw.pc = "done" /\ sw.closed
    /\ sw.cur[1] \notin DOMAIN active_connections
    /\ active_connections # EmptyDict

\* C31: the sweep closes no connection whose heartbeat was refreshed by an
\* inbound frame after the sweep collected it: at the moment close(1001)
\* returns for a registered connection, its last inbound frame is older than
\* connection_timeout.
C31_RefreshedIsNotClosed ==
    [][ (sw.pc = "close" /\ sw'.pc # "close" /\ sw'.closed) =>
          LET room == sw.cur[1]  ws == sw.cur[2]
          IN  ws \in Members(room) => now - heard[ws] > connection_timeout ]_vars

\* C32: a sweep pass ends only when every connection it collected is handled
\* and the last one is gone from its room, and the heartbeat task runs on
\* after the pass, also when a send or a close of the pass raised.
C32_PassEvictsAllAndTaskSurvives ==
    [][ (sw.pc \in {"frame", "close", "status", "publish"}
            /\ sw'.pc \in {"done", "raised"}) =>
          /\ sw'.stale = {}
          /\ sw'.cur[1] \in DOMAIN active_connections' =>
                 sw'.cur[2] \notin DOMAIN active_connections'[sw'.cur[1]]
          /\ hb'.task = "running" ]_vars

----------------------------------------------------------------------------
(* Claims on the orchestrator, checked under Spec *)

\* C21: start_conversation never raises to its caller: it returns True once
\* the scheduler state is initialized, the welcome message is broadcast and
\* the loop task is created, and returns False when a step raised.
C21_StartNeverRaises ==
    oret.op = "start_conversation" =>
        /\ ~oret.raised
        /\ oret.val => /\ oret.cid \in DOMAIN active_conversations
                       /\ \E t \in DOMAIN loops : loops[t].cid = oret.cid

\* C4: for one conversation id at most one turn loop is running and at most
\* one response generation is in flight at any time.
C4_OneLoopPerConversation ==
    \A c \in OrchConvIds :
        /\ Cardinality({t \in DOMAIN loops : loops[t].cid = c /\ Running(t)}) <= 1
        /\ Cardinality({t \in DOMAIN loops : loops[t].cid = c /\ loops[t].pc = "gen"}) <= 1

\* C5: once stop_conversation has returned, a loop that was running begins
\* no new turn and broadcasts at most one further persona message.
C5_StoppedLoopBeginsNoTurn ==
    [][ \A t \in DOMAIN loops :
          after_stop[t].stopped =>
              /\ ~(loops[t].pc = "top" /\ loops'[t].pc = "gen")
              /\ after_stop'[t].msgs <= 1 ]_vars

\* C15: a loop runs at most TurnLimit iterations, skipped ones included
\* (the iteration index goes up by one per iteration and never passes the
\* limit), broadcasts at most one persona message per iteration, hence at
\* most TurnLimit messages, and, its awaited calls completing, ends: at the
\* turn limit, on get_next_speaker returning None, or on get_next_speaker
\* raising for a conversation without participants.
C15_BoundedLoopTerminates ==
    /\ [][ \A t \in DOMAIN loops :
            LET l == loops[t]  m == loops'[t]
            IN  /\ m.turn <= TurnLimit
                /\ (m.pc # "ended" /\ m.turn # l.turn) =>
                      (m.turn = l.turn + 1 /\ ~m.said)
                /\ (m.said /\ ~l.said) => (l.turn < TurnLimit /\ m.turn = l.turn)
                /\ (m.pc = "ended" /\ l.pc # "ended") =>
                      \/ m.why = "limit" /\ l.turn = TurnLimit
                      \/ m.why = "none" /\ l.turn < TurnLimit
                      \/ m.why = "error" /\ l.turn < TurnLimit
                            /\ GetState(l.cid).participants = <<>>
                /\ l.pc = "ended" => m = l ]_vars
    /\ \A t \in Range(TaskIds) :
          (t \in DOMAIN loops) ~> (t \in DOMAIN loops /\ loops[t].pc = "ended")

\* a loop has ended at the turn limit after a message in every iteration
C15_Witness ==
    \E t \in DOMAIN loops :
        /\ loops[t].pc = "ended" /\ loops[t].why = "limit"
        /\ nupdates[loops[t].cid] = TurnLimit

\* the calls of one iteration in the order of the claim C34
IterationOrder ==
    <<"get_next_speaker", "typing", "delay", "generate", "persist",
      "broadcast", "update">>

\* C34: the calls of an iteration that have returned are, in order, the
\* typing indicator broadcast, the pacing delay, the generation, the save of
\* the message, its broadcast and update_last_speaker; and a loop goes from
\* an iteration in which it broadcast a message to its next iteration, whose
\* first call is get_next_speaker, only after update_last_speaker returned.
C34_IterationOrder ==
    /\ [](\A t \in DOMAIN loops :
            LET st == loops[t].steps
            IN  /\ Len(st) <= Len(IterationOrder)
                /\ st = SubSeq(IterationOrder, 1, Len(st)))
    /\ [][ \A t \in DOMAIN loops :
            ("broadcast" \in Range(loops[t].steps)
                /\ loops'[t].turn = loops[t].turn + 1) =>
               loops[t].steps = IterationOrder ]_vars

\* a loop is in its second iteration, all calls of which have returned
C34_Witness ==
    \E t \in DOMAIN loops :
        loops[t].turn = 1 /\ loops[t].steps = IterationOrder

\* C30: when a loop ends at its turn limit the scheduler state of its
\* conversation is stopped: get_next_speaker can only return None.
C30_LimitStopsScheduler ==
    [][ \A t \in DOMAIN loops :
          (loops[t].pc # "ended" /\ loops'[t].pc = "ended"
              /\ loops'[t].why = "limit") =>
                 (NextSpeakers(loops[t].cid))' = {None} ]_vars

\* C29: a loop whose provider call never returns gives up on the call and
\* still ends.
C29_HangingProviderIsGivenUp ==
    \A t \in Range(TaskIds) :
        (t \in DOMAIN loops /\ loops[t].pc = "hung")
            ~> (t \in DOMAIN loops /\ loops[t].pc = "ended")

C9_FailedGenerationContinues ==
    [][ \A t \in DOMAIN loops :
          (loops[t].pc = "got" /\ Falsy(loops[t].response) /\ loops'[t] # loops[t]) =>
              /\ ~loops'[t].said
              /\ loops'[t].pc = "top"
              /\ loops'[t].turn = loops[t].turn + 1
              /\ UNCHANGED <<active_conversations, redis>> ]_vars

\* the only loop of a conversation is at the header of its second iteration
\* and no turn was recorded: the first iteration was skipped
C9_Witness ==
    /\ DOMAIN loops = {"t1"}
    /\ oret.op = "start_conversation" /\ oret.val = TRUE
    /\ loops["t1"].pc = "top" /\ loops["t1"].turn = 1
    /\ active_conversations["c1"].is_active
    /\ active_conversations["c1"].current_turn = 0

----------------------------------------------------------------------------
(* Claims on the TurnManager, checked under SpecTM *)

\* C37: a conversation without state (none in the cache, none readable in
\* the store) gets one only by start_conversation, and get_next_speaker
\* returns None for it; a conversation that is not active becomes active
\* only by start_conversation; and start_conversation leaves the
\* conversation active with turn count 0 and no last speaker, whatever its
\* state was.
C37_StateMachine ==
    [][ /\ \A c \in ConvIds :
             /\ (~HasState(c) /\ (HasState(c))') =>
                    (ret'.op = "start_conversation" /\ ret'.cid = c)
             /\ (HasState(c) /\ ~GetState(c).is_active
                    /\ (GetState(c))'.is_active) =>
                    (ret'.op = "start_conversation" /\ ret'.cid = c)
        /\ (ret'.op = "get_next_speaker" /\ ~HasState(ret'.cid)) =>
               ret'.val = None
        /\ \A c \in ConvIds :
             (ret'.op = "start_conversation" /\ ret'.cid = c) =>
                /\ (HasState(c))'
                /\ (GetState(c))'.is_active
                /\ (GetState(c))'.current_turn = 0
                /\ (GetState(c))'.last_speaker = None ]_vars

\* update_last_speaker on a stopped conversation has counted a second turn
\* and the conversation is still stopped; the other conversation has no
\* state
C37_Witness ==
    /\ ret.op = "update_last_speaker" /\ ret.cid \in stopped
    /\ HasState(ret.cid) /\ ~GetState(ret.cid).is_active
    /\ GetState(ret.cid).current_turn = 2
    /\ \E c \in ConvIds : ~HasState(c)

\* C26: in an active conversation with three participants, a
\* get_next_speaker call that directly follows another one, with no
\* update_last_speaker in between, returns a participant other than the one
\* the first call returned, and both are members of the participant list.
C26_SuccessiveSpeakersDiffer ==
    (/\ ret.op = "get_next_speaker" /\ ret.prev # <<>>
     /\ HasState(ret.cid) /\ GetState(ret.cid).is_active
     /\ Len(GetState(ret.cid).participants) = 3) =>
        /\ ret.val # ret.prev[1]
        /\ {ret.val, ret.prev[1]} \subseteq Range(GetState(ret.cid).participants)

\* C16: start_conversation with an empty participant list is rejected with
\* InvalidParticipants and leaves the scheduler state of the conversation
\* as it was.
C16_EmptyParticipantsRejected ==
    [][ (ret'.op = "start_conversation" /\ ret'.arg = <<>>) =>
          /\ ret'.val = "InvalidParticipants"
          /\ UNCHANGED <<active_conversations, redis>> ]_vars

\* C1: for an active conversation whose participant list holds at least two
\* distinct personas, get_next_speaker returns a participant other than the
\* stored last_speaker; with exactly one participant it returns that one.
C1_NeverRepeatsLastSpeaker ==
    (ret.op = "get_next_speaker" /\ ret.cid \in DOMAIN active_conversations) =>
        LET st == active_conversations[ret.cid]
        IN  st.is_active =>
              /\ Cardinality(Range(st.participants)) >= 2 =>
                    /\ ret.val \in Range(st.participants)
                    /\ ret.val # st.last_speaker
              /\ Len(st.participants) = 1 => ret.val = st.participants[1]

\* a get_next_speaker call on an active conversation with several personas
\* and a recorded last speaker returned a persona
C1_Witness ==
    /\ ret.op = "get_next_speaker"
    /\ ret.cid \in DOMAIN active_conversations
    /\ active_conversations[ret.cid].is_active
    /\ Cardinality(Range(active_conversations[ret.cid].participants)) >= 2
    /\ active_conversations[ret.cid].last_speaker
          \in Range(active_conversations[ret.cid].participants)
    /\ ret.val \in Personas

\* C2: once stop_conversation(c) has completed, every get_next_speaker(c)
\* returns None until a new start_conversation(c); a second
\* stop_conversation(c) changes neither the cached nor the stored state.
C2_StopIsStickyAndIdempotent ==
    [][ /\ (ret'.op = "get_next_speaker" /\ ret'.cid \in stopped) =>
                ret'.val = None
        /\ (ret'.op = "stop_conversation" /\ ret'.cid \in stopped) =>
                UNCHANGED <<active_conversations, redis>> ]_vars

\* get_next_speaker returned None for a stopped conversation that has
\* participants to choose from
C2_Witness ==
    /\ ret.op = "get_next_speaker"
    /\ ret.cid \in stopped
    /\ ret.cid \in DOMAIN active_conversations
    /\ Len(active_conversations[ret.cid].participants) >= 2
    /\ ret.val = None

\* C3: update_last_speaker on an existing state sets last_speaker to the given
\* persona and adds exactly 1 to current_turn; N calls after a
\* start_conversation leave current_turn = N.
C3_UpdateCountsTurns ==
    [][ /\ (ret'.op = "update_last_speaker" /\ HasState(ret'.cid)) =>
              /\ active_conversations'[ret'.cid].last_speaker = ret'.arg
              /\ active_conversations'[ret'.cid].current_turn =
                     GetState(ret'.cid).current_turn + 1
        /\ \A c \in DOMAIN nupdates' :
              active_conversations'[c].current_turn = nupdates'[c] ]_vars

\* two update_last_speaker calls were made after a start
C3_Witness ==
    /\ ret.op = "update_last_speaker"
    /\ ret.cid \in DOMAIN nupdates
    /\ nupdates[ret.cid] = 2
    /\ active_conversations[ret.cid].current_turn = 2

====
